---- MODULE Spec2Model ----
(***************************************************************************)
(* Entra ID synchronisation of the app-monitor dashboard.                  *)
(*                                                                         *)
(* Nine specifications share this module:                                  *)
(*   - Spec: the request handlers sync_entra and test_entra_connection of  *)
(*     blueprints/company.py, run one request at a time against the       *)
(*     tables of models.py (SSOApplication, EntraIntegration);             *)
(*   - SpecRace: sync_entra run by two web workers at once;                *)
(*   - SpecClient: one long-lived EntraClient (utils/entra_client.py) and  *)
(*     its token cache, called repeatedly while time passes;               *)
(*   - SpecQueries: the other queries of that client, the directory        *)
(*     refusing or failing to answer;                                      *)
(*   - SpecRetry: sync_entra run again after a concurrent conflict;        *)
(*   - SpecReads: the pages that read the inventory and the sync state,    *)
(*     served while syncs, tests of the connection and queries go on;      *)
(*   - SpecUsers: add_user, company_setup and edit_profile, which write to  *)
(*     the tables users, companies and entra_integrations, served by two   *)
(*     workers;                                                            *)
(*   - SpecSetup: company_setup followed by sync_entra of the integration  *)
(*     it created;                                                         *)
(*   - SpecMove: sync_entra on one worker while company_setup, posted by   *)
(*     the same or another caller, is served by the other.                 *)
(*                                                                         *)
(* The database is SQLite (config.py:17, the development default): one     *)
(* connection writes at a time, and a write met by another connection's    *)
(* lock fails with "database is locked". A writer that waits instead is    *)
(* the behaviour in which the holder of the lock takes its step first. On  *)
(* PostgreSQL (the production URL) no write is refused for a lock; an      *)
(* INSERT of an identifier another open transaction has inserted waits for *)
(* that transaction to end. The configuration of the SQLite file also     *)
(* sets DEBUG (config.py:15): Flask then lets the BadRequestKeyError of a  *)
(* missing form key leave the handler (answer 500) instead of answering    *)
(* 400.                                                                    *)
(*                                                                         *)
(* Python's None (SQL NULL) is the empty sequence, a present value x is    *)
(* <<x>>; in a JSON object the empty sequence is a key the object lacks.   *)
(***************************************************************************)
EXTENDS Integers, Sequences, FiniteSets, TLC

VARIABLES
    sso_applications,   \* committed rows of table sso_applications, in insertion order
    integrations,       \* committed rows of table entra_integrations, by sso_config_id
    pc,                 \* per worker: "idle", "loop" (line 178), "commit" (line 198), "lookup"
                        \* (line 281), "add" (line 300), "setup" (line 33), "edit" (main.py line 85), "done"
    run,                \* per worker: the locals of its request, its db.session, its response
    started,            \* number of requests received so far
    client,             \* SpecClient: the long-lived EntraClient instance
    now,                \* datetime.utcnow(), in seconds since the process started
    calls,              \* SpecClient: what each call on the client did, in order
    result,             \* SpecQueries: the latest query of the client and what it returned
    users,              \* committed rows of table users, by username
    companies,          \* committed rows of table companies, by id
    sso_configurations  \* committed rows of table sso_configurations

vars == <<sso_applications, integrations, pc, run, started, client, now, calls, result, users,
          companies, sso_configurations>>

----------------------------------------------------------------------------
(* Bounds *)

\* longest remote application list the directory returns
MaxApps == 2
\* number of requests served in one behaviour
MaxRequests == 3
\* number of users add_user creates in one behaviour
MaxUsers == 2
\* calls made on the long-lived client
MaxCalls == 3
\* clock ticks the long-lived client lives through
MaxTicks == 8
\* requests past MaxRequests that only a retry may make
MaxRetries == 1

----------------------------------------------------------------------------
(* Values *)

None == << >>
Some(x) == <<x>>

\* dict.get(key, default)
Get(value, default) == IF value = None THEN default ELSE value[1]

Procs == {"p1", "p2"}

\* the usernames of the rows table users holds at the start
Users == {"alice", "bob", "carol", "dan", "erin", "frank"}

\* a row of table users
UserRow(company_id, email, role, is_admin) ==
    [company_id |-> company_id, email |-> email, role |-> role, is_admin |-> is_admin]

\* the rows table users holds at the start, by username
UserTable ==
    [u \in Users |->
        CASE u = "alice" -> UserRow(1, "alice@c1", "admin", TRUE)
          [] u = "bob"   -> UserRow(2, "bob@c2", "super_admin", FALSE)
          [] u = "carol" -> UserRow(1, "carol@c1", "user", FALSE)
          [] u = "dan"   -> UserRow(3, "dan@c3", "super_admin", FALSE)
          [] u = "erin"  -> UserRow(0, "erin@c0", "user", FALSE)
          [] OTHER       -> UserRow(4, "frank@c4", "admin", TRUE)]

\* the ids of the rows table companies holds at the start
Companies == {1, 2, 3, 4}

\* the rows table companies holds at the start, by id
CompanyTable ==
    [c \in Companies |->
        CASE c = 1 -> [name |-> "C1", domain |-> "c1"]
          [] c = 2 -> [name |-> "C2", domain |-> "c2"]
          [] c = 3 -> [name |-> "C3", domain |-> "c3"]
          [] OTHER -> [name |-> "C4", domain |-> "c4"]]

\* the rows table sso_configurations holds at the start: company 3 has none
\* for entra_id
SSOConfigurations ==
    { [id |-> 1, company_id |-> 1, provider_name |-> "entra_id"],
      [id |-> 2, company_id |-> 2, provider_name |-> "entra_id"],
      [id |-> 3, company_id |-> 3, provider_name |-> "okta"],
      [id |-> 4, company_id |-> 4, provider_name |-> "entra_id"] }

\* sso_config ids that own a row of entra_integrations at the start: config
\* 4 has none
IntegrationIds == {1, 2}

\* the tenant_id of the rows entra_integrations holds at the start
TenantIds == [c \in IntegrationIds |-> IF c = 1 THEN "t-1" ELSE "t-2"]

\* records of the directory's /applications collection
RemoteRecords ==
    { [id |-> Some("a1"), displayName |-> Some("Slack"), signInAudience |-> None, enabled |-> None],
      [id |-> Some("a2"), displayName |-> Some("Zoom"), signInAudience |-> Some("AzureADMyOrg"),
       enabled |-> Some(FALSE)],
      [id |-> Some("a1"), displayName |-> Some("Slack2"), signInAudience |-> Some("AzureADMyOrg"),
       enabled |-> Some(FALSE)],
      [id |-> Some("a2"), displayName |-> None, signInAudience |-> None, enabled |-> Some(TRUE)] }

RECURSIVE SeqsUpTo(_, _)
SeqsUpTo(S, n) ==
    IF n = 0 THEN { << >> }
    ELSE LET shorter == SeqsUpTo(S, n - 1)
         IN shorter \cup { Append(s, x) : s \in { t \in shorter : Len(t) = n - 1 }, x \in S }

RemoteLists == SeqsUpTo(RemoteRecords, MaxApps)

\* answers of the token endpoint: 200 with a token, or 401
TokenResponses ==
    { [status_code |-> 200, access_token |-> tok, expires_in |-> e] :
        tok \in {"tokA", "tokB"}, e \in {300, 400, 600} }
    \cup { [status_code |-> 401, access_token |-> "", expires_in |-> 0] }

\* a 200 of the token endpoint whose body lacks the key expires_in
PartialTokenResponses == { [status_code |-> 200, access_token |-> "tokB"] }

\* answers of a Graph collection endpoint: 200 with a value array drawn from
\* lists, 204, or 403
ApiResponsesOf(lists) ==
    { [status_code |-> 200, value |-> L] : L \in lists }
    \cup { [status_code |-> 204, value |-> << >>], [status_code |-> 403, value |-> << >>] }

ApiResponses == ApiResponsesOf(RemoteLists)

\* no answer at all: requests.post or requests.get raises (ConnectionError, Timeout)
Unreachable == [status_code |-> 0, access_token |-> "", expires_in |-> 0, value |-> << >>]

\* what a query of the long-lived client may meet at the token endpoint
TokenOutcomes ==
    { r \in TokenResponses : r.access_token \in {"", "tokA"} /\ r.expires_in \in {0, 400, 600} }
    \cup {Unreachable}

\* and at a collection endpoint
DataOutcomes ==
    { r \in ApiResponses : Len(r.value) <= 1 } \cup {Unreachable}

\* answers of /organization: 200 with an object that may lack displayName and
\* id, 204, 403, or none
OrganizationOutcomes ==
    { [status_code |-> 200, value |-> [displayName |-> n, id |-> i]] :
        n \in {None, Some("Contoso")}, i \in {None, Some("t-9")} }
    \cup { [status_code |-> 204, value |-> << >>], [status_code |-> 403, value |-> << >>],
           Unreachable }

\* answers of an endpoint that returns one object (/applications/{id},
\* /users/{id}): 200 with the object, 204, 404, or none
ObjectOutcomes ==
    { [status_code |-> 200, value |-> o] :
        o \in { r \in RemoteRecords : r.displayName = Some("Slack") } }
    \cup { [status_code |-> 204, value |-> << >>], [status_code |-> 404, value |-> << >>],
           Unreachable }

\* the days argument of the sign-in queries (default 7)
Days == {1, 7}

\* the ids the queries by id are asked for
QueryIds == {"a1"}

\* seconds the clock advances between two observations
TickSteps == {100}

----------------------------------------------------------------------------
(* utils/entra_client.py *)

\* the 5 min buffer subtracted from expires_in
ExpiryBuffer == 300

NewClient == [access_token |-> None, token_expires |-> None]

\* requests.Response.raise_for_status raises for 4xx and 5xx
RaisesForStatus(response) == response.status_code >= 400

\* the exception an outbound request ends with, None when it is answered 2xx:
\* requests.post/get raises when no answer comes, raise_for_status otherwise
RequestException(response) ==
    IF response.status_code = 0 THEN Some("ConnectionError")
    ELSE IF RaisesForStatus(response) THEN Some("HTTPError")
    ELSE None

\* the guard of line 27: a cached token that has not reached its recorded expiry
CachedTokenUsable(c, t) ==
    /\ c.access_token # None
    /\ c.token_expires # None
    /\ t < c.token_expires[1]

\* mutant: a cached token is reused whatever its expiry
GetAccessTokenNoExpiry(c, t, tokResp) ==
    IF c.access_token # None
    THEN [client |-> c, exc |-> None, token_requests |-> 0]
    ELSE IF RequestException(tokResp) # None
    THEN [client |-> c, exc |-> RequestException(tokResp), token_requests |-> 1]
    ELSE IF "expires_in" \notin DOMAIN tokResp
    THEN [client |-> [c EXCEPT !.access_token = Some(tokResp.access_token)],
          exc |-> Some("'expires_in'"), token_requests |-> 1]
    ELSE [client |-> [access_token |-> Some(tokResp.access_token),
                      token_expires |-> Some(t + tokResp.expires_in - ExpiryBuffer)],
          exc |-> None, token_requests |-> 1]

\* mutant: the expiry recorded without the buffer
GetAccessTokenNoMargin(c, t, tokResp) ==
    IF CachedTokenUsable(c, t)
    THEN [client |-> c, exc |-> None, token_requests |-> 0]
    ELSE IF RequestException(tokResp) # None
    THEN [client |-> c, exc |-> RequestException(tokResp), token_requests |-> 1]
    ELSE IF "expires_in" \notin DOMAIN tokResp
    THEN [client |-> [c EXCEPT !.access_token = Some(tokResp.access_token)],
          exc |-> Some("'expires_in'"), token_requests |-> 1]
    ELSE [client |-> [access_token |-> Some(tokResp.access_token),
                      token_expires |-> Some(t + tokResp.expires_in)],
          exc |-> None, token_requests |-> 1]

\* mutant: when the token request fails, the token already held is returned
GetAccessTokenStaleOnFailure(c, t, tokResp) ==
    IF CachedTokenUsable(c, t)
    THEN [client |-> c, exc |-> None, token_requests |-> 0]
    ELSE IF RequestException(tokResp) # None
    THEN [client |-> c,
          exc |-> IF c.access_token # None THEN None ELSE RequestException(tokResp),
          token_requests |-> 1]
    ELSE IF "expires_in" \notin DOMAIN tokResp
    THEN [client |-> [c EXCEPT !.access_token = Some(tokResp.access_token)],
          exc |-> Some("'expires_in'"), token_requests |-> 1]
    ELSE [client |-> [access_token |-> Some(tokResp.access_token),
                      token_expires |-> Some(t + tokResp.expires_in - ExpiryBuffer)],
          exc |-> None, token_requests |-> 1]

\* _get_access_token at time t, the token endpoint answering tokResp if asked:
\* the client afterwards, the exception raised (None: returned normally) and
\* the number of token requests sent. A body without expires_in raises the
\* KeyError of line 43 after line 42 has stored the token.
GetAccessToken(c, t, tokResp) ==
    IF CachedTokenUsable(c, t)
    THEN [client |-> c, exc |-> None, token_requests |-> 0]
    ELSE IF RequestException(tokResp) # None
    THEN [client |-> c, exc |-> RequestException(tokResp), token_requests |-> 1]
    ELSE IF "expires_in" \notin DOMAIN tokResp
    THEN [client |-> [c EXCEPT !.access_token = Some(tokResp.access_token)],
          exc |-> Some("'expires_in'"), token_requests |-> 1]
    ELSE [client |-> [access_token |-> Some(tokResp.access_token),
                      token_expires |-> Some(t + tokResp.expires_in - ExpiryBuffer)],
          exc |-> None, token_requests |-> 1]

\* _make_request with method GET: value is what the body holds, the array
\* under "value" for a collection (nothing in the {} of a 204)
MakeRequest(c, t, tokResp, apiResp) ==
    LET tok == GetAccessToken(c, t, tokResp)
    IN IF tok.exc # None
       THEN [client |-> tok.client, exc |-> tok.exc, value |-> << >>,
             token_requests |-> tok.token_requests, api_requests |-> 0]
       ELSE IF RequestException(apiResp) # None
       THEN [client |-> tok.client, exc |-> RequestException(apiResp), value |-> << >>,
             token_requests |-> tok.token_requests, api_requests |-> 1]
       ELSE [client |-> tok.client, exc |-> None,
             value |-> IF apiResp.status_code = 204 THEN << >> ELSE apiResp.value,
             token_requests |-> tok.token_requests, api_requests |-> 1]

\* mutant: get_applications without its try/except
GetApplicationsUncaught(c, t, tokResp, apiResp) ==
    LET r == MakeRequest(c, t, tokResp, apiResp)
    IN [client |-> r.client,
        exc |-> r.exc,
        value |-> r.value,
        token_requests |-> r.token_requests,
        api_requests |-> r.api_requests]

\* get_applications: every exception of _make_request becomes the empty list,
\* so the call raises nothing (exc is None)
GetApplications(c, t, tokResp, apiResp) ==
    LET r == MakeRequest(c, t, tokResp, apiResp)
    IN [client |-> r.client,
        exc |-> None,
        value |-> IF r.exc # None THEN << >> ELSE r.value,
        token_requests |-> r.token_requests,
        api_requests |-> r.api_requests]

\* what a list-returning query answers: response.get('value', []) of the
\* body, or [] from its except clause
ListReturned(r) ==
    [client |-> r.client,
     exc |-> None,
     value |-> IF r.exc # None THEN << >> ELSE r.value,
     token_requests |-> r.token_requests,
     api_requests |-> r.api_requests]

\* what a query of one object answers: the body (the {} of a 204 is << >>),
\* or Python's None from its except clause
ObjectReturned(r) ==
    [client |-> r.client,
     exc |-> None,
     value |-> IF r.exc # None THEN None ELSE Some(r.value),
     token_requests |-> r.token_requests,
     api_requests |-> r.api_requests]

\* get_application
GetApplication(c, t, app_id, tokResp, apiResp) ==
    [app_id |-> app_id] @@ ObjectReturned(MakeRequest(c, t, tokResp, apiResp))

\* get_user
GetUser(c, t, user_id, tokResp, apiResp) ==
    [user_id |-> user_id] @@ ObjectReturned(MakeRequest(c, t, tokResp, apiResp))

\* get_users
GetUsers(c, t, tokResp, apiResp) ==
    ListReturned(MakeRequest(c, t, tokResp, apiResp))

SecondsPerDay == 86400

\* the createdDateTime window of the sign-in queries: the `days` before t
SignInWindow(t, days) == [ge |-> t - days * SecondsPerDay, le |-> t]

\* get_sign_in_logs
GetSignInLogs(c, t, days, tokResp, apiResp) ==
    [filter |-> SignInWindow(t, days)]
    @@ ListReturned(MakeRequest(c, t, tokResp, apiResp))

\* get_application_sign_ins
GetApplicationSignIns(c, t, app_id, days, tokResp, apiResp) ==
    [filter |-> SignInWindow(t, days) @@ [appId |-> app_id]]
    @@ ListReturned(MakeRequest(c, t, tokResp, apiResp))

\* get_directory_roles
GetDirectoryRoles(c, t, tokResp, apiResp) ==
    ListReturned(MakeRequest(c, t, tokResp, apiResp))

\* mutant: get_directory_role_members without its try/except
GetDirectoryRoleMembersUncaught(c, t, role_id, tokResp, apiResp) ==
    [role_id |-> role_id] @@ MakeRequest(c, t, tokResp, apiResp)

\* get_directory_role_members
GetDirectoryRoleMembers(c, t, role_id, tokResp, apiResp) ==
    [role_id |-> role_id] @@ ListReturned(MakeRequest(c, t, tokResp, apiResp))

\* the tenant_id the client was built with
TenantId == "t-1"

\* mutant: test_connection reporting success whatever _make_request did
TestConnectionAlwaysSuccess(c, t, tokResp, orgResp) ==
    LET r == MakeRequest(c, t, tokResp, orgResp)
    IN [client |-> r.client, exc |-> None,
        token_requests |-> r.token_requests, api_requests |-> r.api_requests,
        value |-> [success |-> TRUE, tenant_name |-> Some("Unknown"),
                   tenant_id |-> Some(TenantId), error |-> None,
                   message |-> "Connection successful"]]

\* test_connection: the dict returned; a body without displayName or id (the
\* {} of a 204 has neither) gives 'Unknown' and the client's own tenant_id
TestConnection(c, t, tokResp, orgResp) ==
    LET r == MakeRequest(c, t, tokResp, orgResp)
        body == IF orgResp.status_code = 204
                THEN [displayName |-> None, id |-> None] ELSE r.value
    IN [client |-> r.client, exc |-> None,
        token_requests |-> r.token_requests, api_requests |-> r.api_requests,
        value |-> IF r.exc # None
                  THEN [success |-> FALSE, tenant_name |-> None, tenant_id |-> None,
                        error |-> r.exc, message |-> "Connection failed"]
                  ELSE [success |-> TRUE,
                        tenant_name |-> Some(Get(body.displayName, "Unknown")),
                        tenant_id |-> Some(Get(body.id, TenantId)),
                        error |-> None, message |-> "Connection successful"]]

\* the permissions get_permissions_status lists
RequiredPermissions ==
    <<"Application.Read.All", "User.Read.All", "AuditLog.Read.All", "Directory.Read.All">>

\* each of them reported as granted
GrantedPermissions ==
    [i \in DOMAIN RequiredPermissions |->
        [permission |-> RequiredPermissions[i], granted |-> TRUE, type |-> "Application"]]

\* get_permissions_status: the dict returned; the body of the client's own
\* application is fetched and not looked at
GetPermissionsStatus(c, t, tokResp, apiResp) ==
    LET r == MakeRequest(c, t, tokResp, apiResp)
    IN [client |-> r.client, exc |-> None,
        token_requests |-> r.token_requests, api_requests |-> r.api_requests,
        value |-> IF r.exc # None
                  THEN [success |-> FALSE, error |-> r.exc,
                        message |-> "Failed to retrieve permissions status"]
                  ELSE [success |-> TRUE, permissions |-> GrantedPermissions,
                        message |-> "Permissions status retrieved"]]

----------------------------------------------------------------------------
(* models.py *)

\* User.is_super_admin
IsSuperAdmin(user) == user.role = "super_admin"

\* mutant: membership of the company taken for the right to manage it
CanManageCompanyAsMember(user, company_id) ==
    IsSuperAdmin(user) \/ user.company_id = company_id

\* User.can_manage_company
CanManageCompany(user, company_id) ==
    IsSuperAdmin(user) \/ (user.company_id = company_id /\ user.is_admin)

\* mutant: the column declared without unique=True
NoUniqueConstraint(staged, table) == FALSE

\* SSOApplication.entra_app_id is unique=True: flushing the session's new rows
\* raises IntegrityError when one of them carries a non-NULL entra_app_id that a
\* committed row, or another new row, carries already (whatever its company).
\* A row another transaction has inserted and not committed is not seen; the
\* check is made again at every flush and at commit, so of two transactions
\* inserting one identifier the second to end is the one refused.
UniqueViolation(staged, table) ==
    \/ \E i \in DOMAIN staged, j \in DOMAIN table :
          /\ staged[i].entra_app_id # None
          /\ staged[i].entra_app_id = table[j].entra_app_id
    \/ \E i, j \in DOMAIN staged :
          /\ i # j
          /\ staged[i].entra_app_id # None
          /\ staged[i].entra_app_id = staged[j].entra_app_id

----------------------------------------------------------------------------
(* blueprints/company.py: sync_entra and test_entra_connection *)

\* jsonify(...) and the status code returned with it
Response(code, success, error, count) ==
    [code |-> code, success |-> success, error |-> error, count |-> count]

\* mutant: the query without provider_name='entra_id'
EntraConfigsAnyProvider(company_id) ==
    { c \in sso_configurations : c.company_id = company_id }

\* SSOConfiguration.query.filter_by(company_id, provider_name='entra_id').first()
EntraConfigs(company_id) ==
    { c \in sso_configurations : c.company_id = company_id /\ c.provider_name = "entra_id" }

\* the returns of lines 146-167 (212-233 in test_entra_connection): the response
\* sent before any outbound call, or None when the request goes on
Gate(user) ==
    IF user.company_id = 0
    THEN Some(Response(400, FALSE, Some("Company not set up"), None))
    ELSE IF ~CanManageCompany(user, user.company_id)
    THEN Some(Response(403, FALSE, Some("Insufficient permissions"), None))
    ELSE IF EntraConfigs(user.company_id) = {}
    THEN Some(Response(400, FALSE, Some("Entra ID not configured"), None))
    ELSE IF \A c \in EntraConfigs(user.company_id) : c.id \notin DOMAIN integrations
    THEN Some(Response(400, FALSE, Some("Entra integration not found"), None))
    ELSE None

\* the id of the caller's entra_id configuration
ConfigId(user) == (CHOOSE c \in EntraConfigs(user.company_id) : TRUE).id

\* SSOApplication.query.filter_by(company_id, entra_app_id).first() is not None:
\* the query sees the committed rows and the rows this session has flushed
ExistingApp(table, staged, company_id, entra_app_id) ==
    \E i \in DOMAIN (table \o staged) :
        /\ (table \o staged)[i].company_id = company_id
        /\ (table \o staged)[i].entra_app_id = entra_app_id

\* mutant: the constructor called without entra_app_id
NewAppWithoutRemoteId(company_id, app_data) ==
    [company_id |-> company_id,
     entra_app_id |-> None,
     name |-> app_data.displayName[1],
     app_type |-> Get(app_data.signInAudience, "web"),
     is_active |-> Get(app_data.enabled, TRUE)]

\* mutant: the constructor called without is_active, left to the column default
NewAppDefaultActive(company_id, app_data) ==
    [company_id |-> company_id,
     entra_app_id |-> app_data.id,
     name |-> app_data.displayName[1],
     app_type |-> Get(app_data.signInAudience, "web"),
     is_active |-> TRUE]

\* mutant: is_active read with the default False
NewAppDefaultInactive(company_id, app_data) ==
    [company_id |-> company_id,
     entra_app_id |-> app_data.id,
     name |-> app_data.displayName[1],
     app_type |-> Get(app_data.signInAudience, "web"),
     is_active |-> Get(app_data.enabled, FALSE)]

\* SSOApplication(...) of lines 185-191
NewApp(company_id, app_data) ==
    [company_id |-> company_id,
     entra_app_id |-> app_data.id,
     name |-> app_data.displayName[1],
     app_type |-> Get(app_data.signInAudience, "web"),
     is_active |-> Get(app_data.enabled, TRUE)]

\* str(e) of the OperationalError SQLite (config.py:17) raises for a write
\* while another connection holds the write lock
DatabaseLocked == "(sqlite3.OperationalError) database is locked"

\* one iteration of the loop of lines 178-192: the exception raised (None when
\* the iteration ends normally) and the rows the session then holds. The
\* query of line 179 autoflushes first: refused is whether that flush has an
\* INSERT to send while another worker holds the write lock.
Iteration(table, staged, company_id, app_data, refused) ==
    IF app_data.id = None
    THEN [exc |-> Some("'id'"), staged |-> staged]
    ELSE IF refused
    THEN [exc |-> Some(DatabaseLocked), staged |-> staged]
    ELSE IF UniqueViolation(staged, table)
    THEN [exc |-> Some("IntegrityError"), staged |-> staged]
    ELSE IF ExistingApp(table, staged, company_id, app_data.id)
    THEN [exc |-> None, staged |-> staged]
    ELSE IF app_data.displayName = None
    THEN [exc |-> Some("'displayName'"), staged |-> staged]
    ELSE [exc |-> None, staged |-> Append(staged, NewApp(company_id, app_data))]

\* db.session.commit() of line 198: the exception raised, or None. The commit
\* always writes (the UPDATE of lines 195-196): refused is whether another
\* worker holds the write lock.
Commit(table, staged, refused) ==
    IF refused THEN Some(DatabaseLocked)
    ELSE IF UniqueViolation(staged, table) THEN Some("IntegrityError")
    ELSE None

\* mutant: no except clause, the exception answered by the framework's own
\* 500 page
FailureUnhandled(exc) == Response(500, FALSE, None, None)

\* the except clause of lines 205-206: jsonify({'error': str(e)}), 500
Failure(exc) == Response(500, FALSE, exc, None)

\* the return of lines 200-203
Success(apps) == Response(200, TRUE, None, Some(Len(apps)))

\* the return of lines 245-249
Connected(apps) == Response(200, TRUE, None, Some(Len(apps)))

\* the except clause of lines 251-252: 'Connection failed: ' + str(e), 500
ConnectionFailed(exc) == Response(500, FALSE, Some("Connection failed: " \o exc[1]), None)

\* EntraIntegration(...) of lines 54-62, as company_setup stores it
Pending(tenant_id) ==
    [tenant_id |-> tenant_id, permissions_granted |-> << >>,
     sync_status |-> "pending", last_sync |-> None]

\* mutant: the status set without the instant of the run
SyncedWithoutTime(row, t) == [row EXCEPT !.sync_status = "active"]

\* the row of entra_integrations after lines 195-196
Synced(row, t) == [row EXCEPT !.sync_status = "active", !.last_sync = Some(t)]

NoResponse == Response(0, FALSE, None, None)

\* the database as a request finds it
Database ==
    [sso_applications |-> sso_applications, integrations |-> integrations, users |-> users]

NoDatabase == [sso_applications |-> << >>, integrations |-> << >>, users |-> << >>]

\* no query made yet
NoResult ==
    [op |-> "", token_failed |-> FALSE, data_failed |-> FALSE, exc |-> None,
     returned |-> << >>]

IdleRun ==
    [kind |-> "", user |-> "", apps |-> << >>, idx |-> 0, staged |-> << >>, sent |-> 0,
     token_ok |-> FALSE, api_ok |-> FALSE, requests |-> 0,
     repeat |-> FALSE, exc |-> None, traced |-> FALSE,
     data |-> None, current_user |-> None,
     company_id |-> 0, entra_integration |-> 0, last_sync |-> None,
     before |-> NoDatabase,
     response |-> NoResponse]

Init ==
    /\ sso_applications = << >>
    /\ integrations = [c \in IntegrationIds |-> Pending(TenantIds[c])]
    /\ pc = [p \in Procs |-> "idle"]
    /\ run = [p \in Procs |-> IdleRun]
    /\ started = 0
    /\ client = NewClient
    /\ now = 0
    /\ calls = << >>
    /\ result = NoResult
    /\ users = UserTable
    /\ companies = CompanyTable
    /\ sso_configurations = SSOConfigurations

\* the company a request with caller `user` has loaded at line 153 (225): none
\* (0) when a gate of lines 146-150 (218-222) refuses it
CompanyLoaded(user) ==
    IF user.company_id = 0 \/ ~CanManageCompany(user, user.company_id)
    THEN 0
    ELSE user.company_id

\* the company the request loaded, whatever the caller's row has become since
CompanyOf(r) == r.company_id

\* a worker takes a request once it has answered the one before
Free(p) == pc[p] \in {"idle", "done"}

\* a request arrives: the clock has advanced since the one before
Arrive ==
    /\ started < MaxRequests
    /\ started' = started + 1
    /\ \E d \in TickSteps : now' = now + d

\* what the directory answers to one get_applications of a new client: the
\* token endpoint's answer and, when a token was issued, the collection's
Answers(lists) ==
    { <<tokResp, apiResp>> \in
          { t \in TokenResponses : t.access_token \in {"", "tokA"} /\ t.expires_in \in {0, 600} }
          \X ApiResponsesOf(lists) :
        RaisesForStatus(tokResp) => apiResp.status_code = 403 }

\* the request of p ends with `response`: the handler returns, and the
\* teardown of the request (Flask-SQLAlchemy's session.remove()) rolls back
\* whatever the session has not committed. Of a traced request the locals
\* are kept for inspection, of another only the caller, the company loaded
\* and the outcome.
Respond(p, r, response) ==
    /\ run' = [run EXCEPT ![p] =
                 IF r.traced
                 THEN [r EXCEPT !.response = response]
                 ELSE [IdleRun EXCEPT !.kind = r.kind, !.user = r.user, !.exc = r.exc,
                                      !.company_id = r.company_id,
                                      !.token_ok = r.token_ok, !.response = response]]
    /\ pc' = [pc EXCEPT ![p] = "done"]

\* lines 170-177 (237-243): a new client asked for the applications at time t,
\* the directory answering ans: what the handler holds afterwards, whether the
\* token request and the Graph request were answered 2xx, and the number of
\* outbound requests sent
Fetch(t, ans) ==
    LET got == GetApplications(NewClient, t, ans[1], ans[2])
    IN [apps |-> got.value,
        exc |-> got.exc,
        token_ok |-> ~RaisesForStatus(ans[1]),
        api_ok |-> got.api_requests = 1 /\ ~RaisesForStatus(ans[2]),
        requests |-> got.token_requests + got.api_requests]

\* the locals of a request that has fetched: kind is "sync" or "test"; the
\* company is the one loaded at line 153 (225) from the caller's row and the
\* integration the one loaded at lines 162-164 (232-234), both held by the
\* session for the rest of the request; of a traced request the fetch's
\* outbound requests and the database found are remembered as well
Fetched(kind, u, f, repeat, traced) ==
    [IdleRun EXCEPT !.kind = kind, !.user = u, !.apps = f.apps, !.idx = 1,
                    !.company_id = users[u].company_id,
                    !.entra_integration = ConfigId(users[u]),
                    !.token_ok = f.token_ok,
                    !.api_ok = traced /\ f.api_ok,
                    !.requests = IF traced THEN f.requests ELSE 0,
                    !.repeat = repeat,
                    !.traced = traced,
                    !.before = IF traced THEN Database ELSE NoDatabase]

\* sync_entra after line 177: an exception of the fetch ends the request at
\* line 206, otherwise the request goes on at line 178 once the fetch has
\* returned; a traced request remembers the database it found
Begin(p, u, f, repeat, traced) ==
    IF f.exc # None
    THEN Respond(p, [Fetched("sync", u, f, repeat, traced) EXCEPT !.exc = f.exc],
                 Failure(f.exc))
    ELSE /\ run' = [run EXCEPT ![p] = Fetched("sync", u, f, repeat, traced)]
         /\ pc' = [pc EXCEPT ![p] = "loop"]

\* sync_entra, lines 146-167: refused at a gate, before any outbound call
SyncRefused(p, u) ==
    /\ Free(p)
    /\ Gate(users[u]) # None
    /\ Arrive
    /\ Respond(p, [IdleRun EXCEPT !.kind = "sync", !.user = u, !.traced = TRUE,
                                  !.company_id = CompanyLoaded(users[u]),
                                  !.before = Database],
               Gate(users[u])[1])
    /\ UNCHANGED <<sso_applications, integrations, client, calls, result, users,
                 companies, sso_configurations>>

\* sync_entra, lines 146-177: past the gates, a new client fetches the applications
SyncStart(p, u, lists, traced) ==
    /\ Free(p)
    /\ Gate(users[u]) = None
    /\ Arrive
    /\ \E t \in {now'} : \E f \in { Fetch(t, ans) : ans \in Answers(lists) } :
         Begin(p, u, f, FALSE, traced)
    /\ UNCHANGED <<sso_applications, integrations, client, calls, result, users,
                 companies, sso_configurations>>

\* sync_entra once more, right after a run of it: the same caller, the
\* directory answering what it answered to that run
SyncAgain(p) ==
    /\ pc[p] = "done"
    /\ run[p].kind = "sync"
    /\ run[p].traced
    /\ Gate(users[run[p].user]) = None
    /\ Arrive
    /\ Begin(p, run[p].user,
             [apps |-> run[p].apps, exc |-> None, token_ok |-> run[p].token_ok,
              api_ok |-> run[p].api_ok, requests |-> run[p].requests],
             TRUE, TRUE)
    /\ UNCHANGED <<sso_applications, integrations, client, calls, result, users,
                 companies, sso_configurations>>

\* the rows of the session of r whose INSERT has been sent: a row added by
\* one iteration is flushed by the query of the next (autoflush)
Sent(r) == SubSeq(r.staged, 1, r.sent)

\* the row the coming flush has yet to send
Unsent(r) == SubSeq(r.staged, r.sent + 1, Len(r.staged))

\* SQLite lets one connection write at a time: a session that has sent an
\* INSERT holds the write lock until its request ends
HoldsLock(q) ==
    \/ pc[q] \in {"loop", "commit"} /\ Sent(run[q]) # << >>
    \/ pc[q] = "setup"

\* a write of worker p is refused: another worker holds the write lock
LockedOut(p) == \E q \in Procs \ {p} : HoldsLock(q)

\* mutant: db.session.commit() after every db.session.add(app)
SyncLoopCommitEach(p) ==
    /\ pc[p] = "loop"
    /\ LET r == run[p]
           it == Iteration(sso_applications, << >>, r.company_id, r.apps[r.idx], LockedOut(p))
       IN IF r.apps = << >>
          THEN /\ run' = [run EXCEPT ![p].last_sync = Some(now)]
               /\ pc' = [pc EXCEPT ![p] = "commit"]
               /\ UNCHANGED sso_applications
          ELSE IF it.exc # None
          THEN /\ Respond(p, [r EXCEPT !.exc = it.exc], Failure(it.exc))
               /\ UNCHANGED sso_applications
          ELSE /\ run' = [run EXCEPT ![p].idx = r.idx + 1,
                                      ![p].last_sync =
                                          IF r.idx = Len(r.apps) THEN Some(now) ELSE None]
               /\ pc' = [pc EXCEPT ![p] = IF r.idx = Len(r.apps) THEN "commit" ELSE "loop"]
               /\ sso_applications' = sso_applications \o it.staged
    /\ UNCHANGED <<integrations, started, client, now, calls, result, users,
                 companies, sso_configurations>>

\* sync_entra, lines 178-196, after the fetch has returned: one remote
\* record, looked up and added under the company loaded at line 153; an
\* exception ends the request at line 206; after the last record, or at once
\* when the list is empty, line 195 reads the clock and lines 195-196 set the
\* sync state on the integration loaded, which the commit will send
SyncLoop(p) ==
    /\ pc[p] = "loop"
    /\ LET r == run[p]
           it == Iteration(sso_applications, r.staged, r.company_id, r.apps[r.idx],
                           Unsent(r) # << >> /\ LockedOut(p))
       IN IF r.apps = << >>
          THEN /\ run' = [run EXCEPT ![p].last_sync = Some(now)]
               /\ pc' = [pc EXCEPT ![p] = "commit"]
          ELSE IF it.exc # None
          THEN Respond(p, [r EXCEPT !.exc = it.exc], Failure(it.exc))
          ELSE /\ run' = [run EXCEPT ![p].staged = it.staged, ![p].idx = r.idx + 1,
                                      ![p].sent = Len(r.staged),
                                      ![p].last_sync =
                                          IF r.idx = Len(r.apps) THEN Some(now) ELSE None]
               /\ pc' = [pc EXCEPT ![p] = IF r.idx = Len(r.apps) THEN "commit" ELSE "loop"]
    /\ UNCHANGED <<sso_applications, integrations, started, client, now, calls, result, users,
                 companies, sso_configurations>>

\* mutant: an upsert, the rows the company holds refreshed from the records
\* of the list that carry their identifier
SyncCommitUpdating(p) ==
    /\ pc[p] = "commit"
    /\ LET r == run[p]
           exc == Commit(sso_applications, r.staged, LockedOut(p))
           matches(row) == { i \in DOMAIN r.apps :
                               /\ row.company_id = r.company_id
                               /\ r.apps[i].id = row.entra_app_id
                               /\ r.apps[i].displayName # None }
           refreshed(row) ==
               IF matches(row) = {} THEN row
               ELSE LET rec == r.apps[CHOOSE i \in matches(row) :
                                         \A j \in matches(row) : j <= i]
                    IN [row EXCEPT !.name = rec.displayName[1],
                                   !.app_type = Get(rec.signInAudience, "web"),
                                   !.is_active = Get(rec.enabled, TRUE)]
       IN IF exc # None
          THEN /\ Respond(p, [r EXCEPT !.exc = exc], Failure(exc))
               /\ UNCHANGED <<sso_applications, integrations>>
          ELSE /\ sso_applications' =
                     [k \in DOMAIN sso_applications |-> refreshed(sso_applications[k])]
                     \o r.staged
               /\ integrations' = [integrations EXCEPT ![r.entra_integration] = Synced(@, r.last_sync[1])]
               /\ Respond(p, r, Success(r.apps))
    /\ UNCHANGED <<started, client, now, calls, result, users,
                 companies, sso_configurations>>

\* mutant: the sync state set only when the run has applications to insert
SyncCommitOnlyIfNew(p) ==
    /\ pc[p] = "commit"
    /\ LET r == run[p]
           exc == Commit(sso_applications, r.staged, LockedOut(p))
       IN IF exc # None
          THEN /\ Respond(p, [r EXCEPT !.exc = exc], Failure(exc))
               /\ UNCHANGED <<sso_applications, integrations>>
          ELSE /\ sso_applications' = sso_applications \o r.staged
               /\ integrations' =
                     IF r.staged = << >> THEN integrations
                     ELSE [integrations EXCEPT ![r.entra_integration] = Synced(@, r.last_sync[1])]
               /\ Respond(p, r, Success(r.apps))
    /\ UNCHANGED <<started, client, now, calls, result, users,
                 companies, sso_configurations>>

\* mutant: a mirroring sync, the rows of the company whose identifier the list
\* no longer carries deleted before the commit
SyncCommitPruning(p) ==
    /\ pc[p] = "commit"
    /\ LET r == run[p]
           exc == Commit(sso_applications, r.staged, LockedOut(p))
           listed(row) == \/ row.company_id # r.company_id
                          \/ \E i \in DOMAIN r.apps : r.apps[i].id = row.entra_app_id
       IN IF exc # None
          THEN /\ Respond(p, [r EXCEPT !.exc = exc], Failure(exc))
               /\ UNCHANGED <<sso_applications, integrations>>
          ELSE /\ sso_applications' = SelectSeq(sso_applications, listed) \o r.staged
               /\ integrations' = [integrations EXCEPT ![r.entra_integration] = Synced(@, r.last_sync[1])]
               /\ Respond(p, r, Success(r.apps))
    /\ UNCHANGED <<started, client, now, calls, result, users,
                 companies, sso_configurations>>

\* mutant: the company and its integration queried again from the caller's
\* row when the sync state is set
SyncCommitOfCurrentCompany(p) ==
    /\ pc[p] = "commit"
    /\ LET r == run[p]
           exc == Commit(sso_applications, r.staged, LockedOut(p))
       IN IF exc # None
          THEN /\ Respond(p, [r EXCEPT !.exc = exc], Failure(exc))
               /\ UNCHANGED <<sso_applications, integrations>>
          ELSE /\ sso_applications' = sso_applications \o r.staged
               /\ integrations' =
                     [integrations EXCEPT ![ConfigId(users[r.user])] = Synced(@, r.last_sync[1])]
               /\ Respond(p, r, Success(r.apps))
    /\ UNCHANGED <<started, client, now, calls, result, users,
                 companies, sso_configurations>>

\* mutant: the response counts the rows the run inserted
SyncCommitCountingInserted(p) ==
    /\ pc[p] = "commit"
    /\ LET r == run[p]
           exc == Commit(sso_applications, r.staged, LockedOut(p))
       IN IF exc # None
          THEN /\ Respond(p, [r EXCEPT !.exc = exc], Failure(exc))
               /\ UNCHANGED <<sso_applications, integrations>>
          ELSE /\ sso_applications' = sso_applications \o r.staged
               /\ integrations' = [integrations EXCEPT ![r.entra_integration] = Synced(@, r.last_sync[1])]
               /\ Respond(p, r, Response(200, TRUE, None, Some(Len(r.staged))))
    /\ UNCHANGED <<started, client, now, calls, result, users,
                 companies, sso_configurations>>

\* sync_entra, lines 198-206: the session is committed; the sync state
\* goes to the integration loaded at lines 162-164 with the time read at
\* line 195
SyncCommit(p) ==
    /\ pc[p] = "commit"
    /\ LET r == run[p]
           exc == Commit(sso_applications, r.staged, LockedOut(p))
       IN IF exc # None
          THEN /\ Respond(p, [r EXCEPT !.exc = exc], Failure(exc))
               /\ UNCHANGED <<sso_applications, integrations>>
          ELSE /\ sso_applications' = sso_applications \o r.staged
               /\ integrations' = [integrations EXCEPT ![r.entra_integration] = Synced(@, r.last_sync[1])]
               /\ Respond(p, r, Success(r.apps))
    /\ UNCHANGED <<started, client, now, calls, result, users,
                 companies, sso_configurations>>

\* test_entra_connection, lines 210-233: refused at a gate
TestRefused(p, u) ==
    /\ Free(p)
    /\ Gate(users[u]) # None
    /\ Arrive
    /\ Respond(p, [IdleRun EXCEPT !.kind = "test", !.user = u, !.traced = TRUE,
                                  !.company_id = CompanyLoaded(users[u]),
                                  !.before = Database],
               Gate(users[u])[1])
    /\ UNCHANGED <<sso_applications, integrations, client, calls, result, users,
                 companies, sso_configurations>>

\* mutant: a successful test of the connection marks the integration synced
TestEntraConnectionMarking(p, u, lists) ==
    /\ Free(p)
    /\ Gate(users[u]) = None
    /\ Arrive
    /\ \E t \in {now'} : \E f \in { Fetch(t, ans) : ans \in Answers(lists) } :
            IF f.exc # None
            THEN /\ Respond(p, [Fetched("test", u, f, FALSE, TRUE) EXCEPT !.exc = f.exc],
                            ConnectionFailed(f.exc))
                 /\ UNCHANGED integrations
            ELSE /\ Respond(p, Fetched("test", u, f, FALSE, TRUE), Connected(f.apps))
                 /\ integrations' = [integrations EXCEPT ![ConfigId(users[u])] = Synced(@, now')]
    /\ UNCHANGED <<sso_applications, client, calls, result, users,
                 companies, sso_configurations>>

\* test_entra_connection, lines 235-252: it calls get_applications and writes nothing
TestEntraConnection(p, u, lists) ==
    /\ Free(p)
    /\ Gate(users[u]) = None
    /\ Arrive
    /\ \E t \in {now'} : \E f \in { Fetch(t, ans) : ans \in Answers(lists) } :
            IF f.exc # None
            THEN Respond(p, [Fetched("test", u, f, FALSE, TRUE) EXCEPT !.exc = f.exc],
                         ConnectionFailed(f.exc))
            ELSE Respond(p, Fetched("test", u, f, FALSE, TRUE), Connected(f.apps))
    /\ UNCHANGED <<sso_applications, integrations, client, calls, result, users,
                 companies, sso_configurations>>

\* the lists a test of the connection is answered: it reads their length only
TestLists == { L \in RemoteLists : \A i \in DOMAIN L : L[i].displayName = Some("Slack") }

\* requests served one at a time by one worker
Next ==
    \/ \E u \in Users : SyncRefused("p1", u)
    \/ \E u \in Users : SyncStart("p1", u, RemoteLists, TRUE)
    \/ SyncAgain("p1")
    \/ SyncLoop("p1")
    \/ SyncCommit("p1")
    \/ \E u \in Users : TestRefused("p1", u)
    \/ \E u \in Users : TestEntraConnection("p1", u, TestLists)

Spec == Init /\ [][Next]_vars

\* sync requests of the two company admins served by two workers at once, the
\* directory answering lists of the two applications as first published
RaceLists ==
    SeqsUpTo({ r \in RemoteRecords : r.displayName \in {Some("Slack"), Some("Zoom")} }, MaxApps)

RaceNext ==
    \/ \E p \in Procs, u \in {"alice", "bob"} : SyncStart(p, u, RaceLists, FALSE)
    \/ \E p \in Procs : SyncLoop(p)
    \/ \E p \in Procs : SyncCommit(p)

SpecRace == Init /\ [][RaceNext]_vars

\* a run of sync_entra is between its fetch and its response
Busy(p) == pc[p] \in {"loop", "commit"}

\* the run of p was refused by the uniqueness constraint because a request of
\* its own company committed, while it ran, an identifier it had staged, and
\* no other company holds an identifier it had staged
LostToOwnCompany(p) ==
    /\ pc[p] = "done"
    /\ run[p].exc = Some("IntegrityError")
    /\ \E i \in DOMAIN run[p].staged, k \in DOMAIN sso_applications :
          /\ k > Len(run[p].before.sso_applications)
          /\ sso_applications[k].company_id = CompanyOf(run[p])
          /\ sso_applications[k].entra_app_id = run[p].staged[i].entra_app_id
    /\ \A i \in DOMAIN run[p].staged, k \in DOMAIN sso_applications :
          sso_applications[k].entra_app_id = run[p].staged[i].entra_app_id
          => sso_applications[k].company_id = CompanyOf(run[p])

\* the caller of such a run triggers the sync again, the directory answering
\* as before, when no other sync is under way
SyncRetry(p) ==
    /\ \A q \in Procs : ~Busy(q)
    /\ LostToOwnCompany(p)
    /\ run[p].kind = "sync"
    /\ started < MaxRequests + MaxRetries
    /\ started' = started + 1
    /\ \E d \in TickSteps : now' = now + d
    /\ Begin(p, run[p].user,
             [apps |-> run[p].apps, exc |-> None, token_ok |-> run[p].token_ok,
              api_ok |-> run[p].api_ok, requests |-> run[p].requests],
             TRUE, TRUE)
    /\ UNCHANGED <<sso_applications, integrations, client, calls, result, users,
                 companies, sso_configurations>>

\* two workers as in SpecRace, every run traced; no sync starts while a
\* retry is under way
RetryNext ==
    \/ \E p \in Procs, u \in {"alice", "bob"} :
          /\ \A q \in Procs : ~(Busy(q) /\ run[q].repeat)
          /\ SyncStart(p, u, RaceLists, TRUE)
    \/ \E p \in Procs : SyncRetry(p)
    \/ \E p \in Procs : SyncLoop(p)
    \/ \E p \in Procs : SyncCommit(p)

SpecRetry == Init /\ [][RetryNext]_vars

----------------------------------------------------------------------------
(* One EntraClient kept alive across calls *)

\* time passes
ClientTick ==
    /\ \E d \in TickSteps : now + d <= MaxTicks * d /\ now' = now + d
    /\ UNCHANGED <<sso_applications, integrations, pc, run, started, client, calls, result, users,
                 companies, sso_configurations>>

\* get_applications() on the client: calls records the time of the call,
\* whether the cached expiry was still ahead, the requests the call sent, the
\* token and lifetime a token request of the call was answered with a
\* complete body, and the token the Graph request carried
ClientGetApplications(tokResp, apiResp) ==
    /\ Len(calls) < MaxCalls
    /\ LET got == GetApplications(client, now, tokResp, apiResp)
       IN /\ client' = got.client
          /\ calls' = Append(calls,
                 [at |-> now,
                  in_window |-> client.token_expires # None /\ now < client.token_expires[1],
                  token_requests |-> got.token_requests,
                  api_requests |-> got.api_requests,
                  granted |-> IF /\ got.token_requests = 1
                                 /\ RequestException(tokResp) = None
                                 /\ "expires_in" \in DOMAIN tokResp
                              THEN Some([access_token |-> tokResp.access_token,
                                         expires_in |-> tokResp.expires_in])
                              ELSE None,
                  sent |-> IF got.api_requests = 1 THEN got.client.access_token ELSE None])
    /\ UNCHANGED <<sso_applications, integrations, pc, run, started, now, result, users,
                 companies, sso_configurations>>

\* what get_applications of the long-lived client meets at the token
\* endpoint: a refusal, a token that lives for the buffer or longer, or a
\* body without expires_in
ClientTokenOutcomes ==
    { r \in TokenResponses : r.access_token \in {"", "tokA"} /\ r.expires_in \in {0, 300, 600} }
    \cup PartialTokenResponses

ClientNext ==
    \/ ClientTick
    \/ \E tokResp \in ClientTokenOutcomes :
          \E apiResp \in { a \in ApiResponses : Len(a.value) <= 1 } :
             ClientGetApplications(tokResp, apiResp)

SpecClient == Init /\ [][ClientNext]_vars

\* a query of the client has returned r: the client keeps the token it may
\* have cached, and result records which of the requests sent failed, the
\* exception that left the method and the value it returned
Query(op, tokResp, dataResp, r) ==
    /\ client' = r.client
    /\ result' = [op |-> op,
                  token_failed |-> r.token_requests = 1 /\ RequestException(tokResp) # None,
                  data_failed |-> r.api_requests = 1 /\ RequestException(dataResp) # None,
                  exc |-> r.exc,
                  returned |-> r.value]
    /\ UNCHANGED <<sso_applications, integrations, pc, run, started, now, calls, users,
                 companies, sso_configurations>>

ClientGetUsers(tokResp, apiResp) ==
    Query("get_users", tokResp, apiResp, GetUsers(client, now, tokResp, apiResp))

ClientGetApplication(app_id, tokResp, apiResp) ==
    Query("get_application", tokResp, apiResp,
          GetApplication(client, now, app_id, tokResp, apiResp))

ClientGetUser(user_id, tokResp, apiResp) ==
    Query("get_user", tokResp, apiResp, GetUser(client, now, user_id, tokResp, apiResp))

ClientGetPermissionsStatus(tokResp, apiResp) ==
    Query("get_permissions_status", tokResp, apiResp,
          GetPermissionsStatus(client, now, tokResp, apiResp))

ClientGetSignInLogs(days, tokResp, apiResp) ==
    Query("get_sign_in_logs", tokResp, apiResp,
          GetSignInLogs(client, now, days, tokResp, apiResp))

ClientGetApplicationSignIns(app_id, days, tokResp, apiResp) ==
    Query("get_application_sign_ins", tokResp, apiResp,
          GetApplicationSignIns(client, now, app_id, days, tokResp, apiResp))

ClientGetDirectoryRoles(tokResp, apiResp) ==
    Query("get_directory_roles", tokResp, apiResp,
          GetDirectoryRoles(client, now, tokResp, apiResp))

ClientGetDirectoryRoleMembers(role_id, tokResp, apiResp) ==
    Query("get_directory_role_members", tokResp, apiResp,
          GetDirectoryRoleMembers(client, now, role_id, tokResp, apiResp))

ClientTestConnection(tokResp, orgResp) ==
    Query("test_connection", tokResp, orgResp, TestConnection(client, now, tokResp, orgResp))

\* the list-returning queries
ListQueries ==
    {"get_users", "get_sign_in_logs", "get_application_sign_ins", "get_directory_roles",
     "get_directory_role_members"}

QueriesNext ==
    \/ ClientTick
    \/ \E tokResp \in TokenOutcomes, apiResp \in DataOutcomes :
          \/ ClientGetUsers(tokResp, apiResp)
          \/ \E days \in Days : ClientGetSignInLogs(days, tokResp, apiResp)
          \/ \E id \in QueryIds, days \in Days :
                ClientGetApplicationSignIns(id, days, tokResp, apiResp)
          \/ ClientGetDirectoryRoles(tokResp, apiResp)
          \/ \E id \in QueryIds : ClientGetDirectoryRoleMembers(id, tokResp, apiResp)
    \/ \E tokResp \in TokenOutcomes, orgResp \in OrganizationOutcomes :
          ClientTestConnection(tokResp, orgResp)
    \/ \E tokResp \in TokenOutcomes, apiResp \in ObjectOutcomes :
          \/ \E id \in QueryIds : ClientGetApplication(id, tokResp, apiResp)
          \/ \E id \in QueryIds : ClientGetUser(id, tokResp, apiResp)
          \/ ClientGetPermissionsStatus(tokResp, apiResp)

SpecQueries == Init /\ [][QueriesNext]_vars

\* the redirect to company_setup of a caller without a company
Redirect == [code |-> 302, view |-> None]

\* render_template(...): the page and the values handed to the template
Page(view) == [code |-> 200, view |-> Some(view)]

\* the answer of Flask to an exception that leaves a handler
InternalServerError == [code |-> 500, view |-> None]

\* SSOApplication.query.filter_by(company_id=company.id).all()
CompanyApps(company_id) ==
    LET own(row) == row.company_id = company_id
    IN SelectSeq(sso_applications, own)

\* a read route answers: it has queried and written nothing
Read(p, u, kind, page) ==
    /\ Free(p)
    /\ u \in DOMAIN users
    /\ Arrive
    /\ Respond(p, [IdleRun EXCEPT !.kind = kind, !.user = u],
               IF users[u].company_id = 0 THEN Redirect ELSE page)
    /\ UNCHANGED <<sso_applications, integrations, client, calls, result, users,
                   companies, sso_configurations>>

\* setup_status of lines 91-96
SetupStatus(company_id) ==
    LET configs == EntraConfigs(company_id)
        sso_config == CHOOSE c \in configs : TRUE
        found == configs # {} /\ sso_config.id \in DOMAIN integrations
        entra_integration == integrations[sso_config.id]
    IN [company_setup |-> TRUE,
        entra_config |-> found /\ entra_integration.tenant_id # "",
        permissions |-> found /\ entra_integration.permissions_granted # << >>,
        sync_data |-> found /\ entra_integration.sync_status = "active"]

\* entra_setup, lines 73-104
EntraSetup(p, u) ==
    Read(p, u, "entra_setup", Page(SetupStatus(users[u].company_id)))

\* company_dashboard, lines 109-125: the query of lines 119-120 names
\* UserActivity, which the module does not import (line 11): NameError
CompanyDashboard(p, u) ==
    Read(p, u, "company_dashboard", InternalServerError)

\* sso_applications, lines 129-140
SSOApplicationsPage(p, u) ==
    Read(p, u, "sso_applications", Page(CompanyApps(users[u].company_id)))

\* the answers met in SpecReads: a list of at most one application, a token
\* issued or the endpoint unreachable, a collection empty or refused, the
\* organization described or refused
ReadLists == { L \in RaceLists : Len(L) <= 1 }

ReadTokenOutcomes ==
    { t \in TokenOutcomes :
        t.status_code = 0 \/ (t.access_token = "tokA" /\ t.expires_in = 600) }

ReadDataOutcomes ==
    { d \in DataOutcomes : d.status_code \in {200, 403} /\ d.value = << >> }

ReadOrganizationOutcomes ==
    { o \in OrganizationOutcomes :
        \/ o.status_code = 403
        \/ o.value = [displayName |-> Some("Contoso"), id |-> Some("t-9")] }

\* one worker serves syncs and tests of the connection, the other the pages,
\* and a long-lived client is queried meanwhile
ReadsNext ==
    \/ \E u \in {"alice", "bob"} : SyncStart("p1", u, ReadLists, FALSE)
    \/ SyncLoop("p1")
    \/ SyncCommit("p1")
    \/ \E u \in {"alice", "carol"} : TestRefused("p1", u)
    \/ \E u \in {"alice", "carol"} : TestEntraConnection("p1", u, TestLists)
    \/ \E u \in {"alice", "erin"} : EntraSetup("p2", u)
    \/ \E u \in {"alice", "erin"} : CompanyDashboard("p2", u)
    \/ \E u \in {"alice", "erin"} : SSOApplicationsPage("p2", u)
    \/ \E tokResp \in ReadTokenOutcomes, apiResp \in ReadDataOutcomes :
          ClientGetUsers(tokResp, apiResp)
    \/ \E tokResp \in ReadTokenOutcomes, orgResp \in ReadOrganizationOutcomes :
          ClientTestConnection(tokResp, orgResp)

SpecReads == Init /\ [][ReadsNext]_vars

----------------------------------------------------------------------------
(* blueprints/company.py: add_user, company_setup; blueprints/main.py:     *)
(* edit_profile                                                            *)

\* the usernames and emails the bodies of add_user name: new ones, and those
\* of a row the table holds
Usernames == {"n1", "n2", "alice"}

Emails == {"e1", "e2", "alice@c1"}

\* the keys add_user reads with data[...]
RequiredKeys == <<"email", "username", "first_name", "last_name", "password">>

\* a JSON body with every key add_user reads with data[...]: a new user, or
\* one whose username or email the table holds
FullBodies ==
    { b \in [username : { Some(n) : n \in Usernames }, email : { Some(e) : e \in Emails },
             first_name : {Some("F")}, last_name : {Some("L")}, password : {Some("pw")},
             role : {None, Some("super_admin")},
             is_admin : {None, Some(TRUE)}] :
        <<b.username[1], b.email[1]>> \in
            {<<"n1", "e1">>, <<"n2", "e2">>, <<"n2", "e1">>, <<"alice", "e2">>,
             <<"n1", "alice@c1">>} }

\* the JSON bodies posted to add_user: role and is_admin are optional, and a
\* body may lack any one of the other keys
AddUserData ==
    FullBodies
    \cup { [b EXCEPT ![RequiredKeys[k]] = None] :
             b \in { f \in FullBodies : f.username = Some("n1") /\ f.email = Some("e1")
                                       /\ f.role = None /\ f.is_admin = None },
             k \in DOMAIN RequiredKeys }

\* the KeyError of the first data[key] of lines 284-295 whose key the body
\* lacks, or None
MissingKey(data) ==
    IF \A k \in DOMAIN RequiredKeys : data[RequiredKeys[k]] # None
    THEN None
    ELSE LET k == CHOOSE i \in DOMAIN RequiredKeys :
                     /\ data[RequiredKeys[i]] = None
                     /\ \A j \in 1..(i - 1) : data[RequiredKeys[j]] # None
         IN Some("'" \o RequiredKeys[k] \o "'")

\* User(...) of lines 289-298
NewUser(current_user, data) ==
    UserRow(current_user.company_id, data.email[1], Get(data.role, "user"),
            Get(data.is_admin, FALSE))

\* the users add_user has created
Created == DOMAIN users \ Users

\* User.query.filter_by(email=email).first() is not None
EmailTaken(email) == \E n \in DOMAIN users : users[n].email = email

\* add_user, lines 271-279: login_required loads the caller's row
\* (load_user, User.query.get), and the gates read the row loaded; the
\* session keeps that row for the rest of the request
AddUser(p, u) ==
    /\ Free(p)
    /\ u \in DOMAIN users
    /\ Cardinality(Created) < MaxUsers
    /\ Arrive
    /\ LET current_user == users[u]
           r == [IdleRun EXCEPT !.kind = "add_user", !.user = u]
       IN IF current_user.company_id = 0
          THEN Respond(p, r, Response(400, FALSE, Some("Company not set up"), None))
          ELSE IF ~CanManageCompany(current_user, current_user.company_id)
          THEN Respond(p, r, Response(403, FALSE, Some("Insufficient permissions"), None))
          ELSE /\ run' = [run EXCEPT ![p] = [r EXCEPT !.current_user = Some(current_user)]]
               /\ pc' = [pc EXCEPT ![p] = "lookup"]
    /\ UNCHANGED <<sso_applications, integrations, client, calls, result, users,
                   companies, sso_configurations>>

\* add_user, lines 281-298: the body is read, the email looked up in the
\* table as it now is, and the user built from the body and the row loaded;
\* the request goes on to lines 300-301 when nothing ends it
AddUserLookup(p, data) ==
    /\ pc[p] = "lookup"
    /\ LET r == run[p]
       IN IF data.email = None
          THEN Respond(p, [r EXCEPT !.exc = MissingKey(data)], InternalServerError)
          ELSE IF EmailTaken(data.email[1])
          THEN Respond(p, r, Response(400, FALSE,
                                      Some("User with this email already exists"), None))
          ELSE IF MissingKey(data) # None
          THEN Respond(p, [r EXCEPT !.exc = MissingKey(data)], InternalServerError)
          ELSE /\ run' = [run EXCEPT ![p] = [r EXCEPT !.data = Some(data)]]
               /\ pc' = [pc EXCEPT ![p] = "add"]
    /\ UNCHANGED <<sso_applications, integrations, started, client, now, calls, result, users,
                   companies, sso_configurations>>

\* add_user, lines 300-307: the INSERT is sent by the commit, which enforces
\* the unique username and email; no clause catches what it raises
AddUserCommit(p) ==
    /\ pc[p] = "add"
    /\ LET r == run[p]
           data == r.data[1]
       IN IF LockedOut(p)
          THEN /\ Respond(p, [r EXCEPT !.exc = Some(DatabaseLocked)], InternalServerError)
               /\ UNCHANGED users
          ELSE IF data.username[1] \in DOMAIN users \/ EmailTaken(data.email[1])
          THEN /\ Respond(p, [r EXCEPT !.exc = Some("IntegrityError")], InternalServerError)
               /\ UNCHANGED users
          ELSE /\ users' = users @@ (data.username[1] :> NewUser(r.current_user[1], data))
               /\ Respond(p, r, Response(200, TRUE, None, None))
    /\ UNCHANGED <<sso_applications, integrations, started, client, now, calls, result,
                   companies, sso_configurations>>

\* companies company_setup may create in one behaviour
MaxSetups == 1

\* the keys of the form whose value company_setup stores in a NOT NULL column
\* of entra_integrations
CredentialKeys == {"tenant_id", "client_id", "client_secret", "api_key"}

\* a form with every field: the domain new or that of company 1, the tenant
\* given or left blank
FullForms ==
    [company_name : {Some("C5")}, company_domain : {Some("c1"), Some("c5")},
     employee_count : {None}, tenant_id : {Some(""), Some("t-5")},
     client_id : {Some("cl")}, client_secret : {Some("s")}, api_key : {Some("k")}]

\* the forms posted to company_setup: a field may be missing, and
\* employee_count is free text
SetupForms ==
    FullForms
    \cup { [f EXCEPT ![k] = None] :
             f \in { g \in FullForms : g.company_domain = Some("c5") /\ g.tenant_id = Some("t-5") },
             k \in CredentialKeys \cup {"company_name", "company_domain"} }
    \cup { [f EXCEPT !.employee_count = Some(e)] :
             f \in { g \in FullForms : g.company_domain = Some("c5") /\ g.tenant_id = Some("t-5") },
             e \in {"12", "many"} }

\* int(text) raises ValueError
NotAnInteger(text) == text \notin {"12"}

\* the next value of an autoincremented id
NextId(ids) == (CHOOSE m \in ids : \A i \in ids : i <= m) + 1

\* company_setup, lines 20-31 of a POST: the company is built from the form
\* and its INSERT sent by the flush, which takes the write lock; with DEBUG
\* on (config.py:15) the BadRequestKeyError of a key the form lacks is not
\* turned into a 400 but leaves the handler
CompanySetup(p, u, form) ==
    /\ Free(p)
    /\ u \in DOMAIN users
    /\ Cardinality(DOMAIN companies \ Companies) < MaxSetups
    /\ Arrive
    /\ LET r == [IdleRun EXCEPT !.kind = "company_setup", !.user = u]
       IN IF form.company_name = None
          THEN Respond(p, [r EXCEPT !.exc = Some("'company_name'")], InternalServerError)
          ELSE IF form.company_domain = None
          THEN Respond(p, [r EXCEPT !.exc = Some("'company_domain'")], InternalServerError)
          ELSE IF form.employee_count # None /\ NotAnInteger(form.employee_count[1])
          THEN Respond(p, [r EXCEPT !.exc = Some("ValueError")], InternalServerError)
          ELSE IF LockedOut(p)
          THEN Respond(p, [r EXCEPT !.exc = Some(DatabaseLocked)], InternalServerError)
          ELSE IF \E c \in DOMAIN companies : companies[c].domain = form.company_domain[1]
          THEN Respond(p, [r EXCEPT !.exc = Some("IntegrityError")], InternalServerError)
          ELSE /\ run' = [run EXCEPT ![p] = [r EXCEPT !.data = Some(form)]]
               /\ pc' = [pc EXCEPT ![p] = "setup"]
    /\ UNCHANGED <<sso_applications, integrations, client, calls, result, users,
                   companies, sso_configurations>>

\* company_setup, lines 34-67: the caller becomes the admin of the company;
\* a credential the form lacks is NULL in a NOT NULL column, and the commit
\* that raises writes nothing
CompanySetupCommit(p) ==
    /\ pc[p] = "setup"
    /\ LET r == run[p]
           form == r.data[1]
           company_id == NextId(DOMAIN companies)
           sso_config_id == NextId({ c.id : c \in sso_configurations })
       IN IF \E k \in CredentialKeys : form[k] = None
          THEN /\ Respond(p, [r EXCEPT !.exc = Some("IntegrityError")], InternalServerError)
               /\ UNCHANGED <<users, companies, sso_configurations, integrations>>
          ELSE /\ companies' = companies @@
                     (company_id :> [name |-> form.company_name[1],
                                     domain |-> form.company_domain[1]])
               /\ users' = [users EXCEPT ![r.user] =
                               [@ EXCEPT !.company_id = company_id, !.role = "admin",
                                         !.is_admin = TRUE]]
               /\ sso_configurations' = sso_configurations \cup
                     { [id |-> sso_config_id, company_id |-> company_id,
                        provider_name |-> "entra_id"] }
               /\ integrations' = integrations @@ (sso_config_id :> Pending(form.tenant_id[1]))
               /\ Respond(p, r, Redirect)
    /\ UNCHANGED <<sso_applications, started, client, now, calls, result>>

\* the forms posted to edit_profile: a field left out or blank is None
ProfileForms ==
    [first_name : {Some("F")}, last_name : {Some("L")},
     email : {None, Some("e1"), Some("alice@c1")}]
    \cup { [first_name |-> None, last_name |-> Some("L"), email |-> Some("e1")],
           [first_name |-> Some("F"), last_name |-> None, email |-> Some("e1")] }

\* edit_profile, lines 66-82: the fields are required, and the email must not
\* be that of another user; the session keeps the caller's row as load_user
\* loaded it
EditProfile(p, u, form) ==
    /\ Free(p)
    /\ u \in DOMAIN users
    /\ Arrive
    /\ LET r == [IdleRun EXCEPT !.kind = "edit_profile", !.user = u,
                               !.current_user = Some(users[u])]
       IN IF form.first_name = None \/ form.last_name = None \/ form.email = None
          THEN Respond(p, r, Redirect)
          ELSE IF \E n \in DOMAIN users \ {u} : users[n].email = form.email[1]
          THEN Respond(p, r, Redirect)
          ELSE /\ run' = [run EXCEPT ![p] = [r EXCEPT !.data = Some(form)]]
               /\ pc' = [pc EXCEPT ![p] = "edit"]
    /\ UNCHANGED <<sso_applications, integrations, client, calls, result, users,
                   companies, sso_configurations>>

\* edit_profile, lines 85-93: the UPDATE is sent by the commit; it carries
\* the columns whose value differs from the one loaded (updated_at always
\* does), so an email equal to the one loaded is not written and the unique
\* email is enforced only for an email that is
EditProfileCommit(p) ==
    /\ pc[p] = "edit"
    /\ LET r == run[p]
           email == r.data[1].email[1]
           changed == email # r.current_user[1].email
       IN IF LockedOut(p)
          THEN /\ Respond(p, [r EXCEPT !.exc = Some(DatabaseLocked)], InternalServerError)
               /\ UNCHANGED users
          ELSE IF changed /\ \E n \in DOMAIN users \ {r.user} : users[n].email = email
          THEN /\ Respond(p, [r EXCEPT !.exc = Some("IntegrityError")], InternalServerError)
               /\ UNCHANGED users
          ELSE /\ users' = IF changed THEN [users EXCEPT ![r.user].email = email] ELSE users
               /\ Respond(p, r, Redirect)
    /\ UNCHANGED <<sso_applications, integrations, started, client, now, calls, result,
                   companies, sso_configurations>>

\* the users whose requests SpecUsers follows: an admin, a super admin, a
\* user without company, and the users add_user creates
Actors == {"alice", "bob", "erin"} \cup Created

\* one worker serves the requests that write to users, companies and the
\* integrations, and the setup page, while a second one serves add_user
UsersNext ==
    \/ \E p \in Procs, u \in Actors : AddUser(p, u)
    \/ \E p \in Procs, data \in AddUserData : AddUserLookup(p, data)
    \/ \E p \in Procs : AddUserCommit(p)
    \/ \E u \in Actors \ {"bob"}, form \in SetupForms : CompanySetup("p1", u, form)
    \/ CompanySetupCommit("p1")
    \/ \E u \in Actors \ {"bob"}, form \in ProfileForms : EditProfile("p1", u, form)
    \/ EditProfileCommit("p1")
    \/ \E u \in Actors \ {"bob"} : EntraSetup("p1", u)
    \/ \E u \in Actors \ {"bob"} : CompanyDashboard("p1", u)

SpecUsers == Init /\ [][UsersNext]_vars

\* one worker: a user sets a company up, then syncs the integration
\* company_setup created and looks at the setup page
SetupNext ==
    \/ \E u \in {"alice", "erin"}, form \in FullForms : CompanySetup("p1", u, form)
    \/ CompanySetupCommit("p1")
    \/ \E u \in {"alice", "erin"} : SyncRefused("p1", u)
    \/ \E u \in {"alice", "erin"} : SyncStart("p1", u, ReadLists, TRUE)
    \/ SyncLoop("p1")
    \/ SyncCommit("p1")
    \/ \E u \in {"alice", "erin"} : EntraSetup("p1", u)

SpecSetup == Init /\ [][SetupNext]_vars

\* two workers: one serves sync requests, each to its end, while the other
\* serves company_setup, which has no guard against a caller who has a
\* company already and may be posted by the caller of the sync under way
MoveNext ==
    \/ \E u \in {"alice", "erin"} : SyncRefused("p1", u)
    \/ \E u \in {"alice", "bob", "erin"} : SyncStart("p1", u, ReadLists, TRUE)
    \/ SyncLoop("p1")
    \/ SyncCommit("p1")
    \/ \E u \in {"alice", "erin"}, form \in FullForms : CompanySetup("p2", u, form)
    \/ CompanySetupCommit("p2")

SpecMove == Init /\ [][MoveNext]_vars

----------------------------------------------------------------------------
(* Properties *)

\* a finished run of sync_entra that got past the gates: it was answered at
\* lines 200-204 or 206, not by a return of lines 147-167
SyncDone(p) ==
    /\ pc[p] = "done"
    /\ run[p].kind = "sync"
    /\ run[p].response.code \in {200, 500}

\* the rows of `table` that company_id holds for the remote identifier
RowsFor(table, company_id, entra_app_id) ==
    { i \in DOMAIN table :
        table[i].company_id = company_id /\ table[i].entra_app_id = entra_app_id }

\* the index of the first record of apps that carries the identifier
FirstWith(apps, entra_app_id) ==
    CHOOSE i \in DOMAIN apps :
        /\ apps[i].id = entra_app_id
        /\ \A j \in 1..(i - 1) : apps[j].id # entra_app_id

\* every record of the list carries the keys sync_entra reads with [...]
WellFormed(apps) ==
    \A i \in DOMAIN apps : apps[i].id # None /\ apps[i].displayName # None

\* C1: in every reachable state, whatever sync runs have been made, in sequence
\* or interleaved, for either company, with lists that may repeat an
\* identifier, the table holds at most one row per (company, remote identifier).
C1_OneRowPerCompanyAndRemoteId ==
    \A i, j \in DOMAIN sso_applications :
        (/\ sso_applications[i].company_id = sso_applications[j].company_id
         /\ sso_applications[i].entra_app_id = sso_applications[j].entra_app_id)
        => i = j

\* two runs for one company overlapped, each staging an identifier it did not
\* find: one committed, the other was refused at its flush or commit (no other
\* company holds a row that could have refused it)
C1_Witness ==
    \E p, q \in Procs :
        /\ p # q
        /\ SyncDone(p) /\ SyncDone(q)
        /\ CompanyOf(run[p]) = CompanyOf(run[q])
        /\ run[p].response.code = 200
        /\ run[q].exc = Some("IntegrityError")
        /\ Len(sso_applications) = 2
        /\ \A i \in DOMAIN sso_applications :
              sso_applications[i].company_id = CompanyOf(run[q])

\* C2: a sync run made right after a sync run of the same caller, the directory
\* answering the same list, leaves the inventory as the first run left it: no
\* row added, none removed, no field of a row changed.
C2_IdempotentInsert ==
    \A p \in Procs :
        (SyncDone(p) /\ run[p].repeat)
        => sso_applications = run[p].before.sso_applications

\* the second of two successful runs on a list of two applications that the
\* first run inserted
C2_Witness ==
    \E p \in Procs :
        /\ SyncDone(p) /\ run[p].repeat
        /\ run[p].response.code = 200
        /\ Len(run[p].apps) = 2
        /\ run[p].apps[1].id # run[p].apps[2].id
        /\ \A i \in DOMAIN run[p].apps :
              RowsFor(sso_applications, CompanyOf(run[p]), run[p].apps[i].id) # {}

\* C3: a successful sync creates, for every identifier of the remote list the
\* company did not hold, exactly one entity of that company, with the record's
\* identifier, display name, type and enabled flag (type "web" and active when
\* the record omits them), and creates nothing else.
C3_NewApplicationDiscovery ==
    \A p \in Procs :
        (SyncDone(p) /\ run[p].response.success)
        => LET r == run[p]
               was == r.before.sso_applications
               held == { was[i].entra_app_id : i \in { k \in DOMAIN was : was[k].company_id = CompanyOf(r) } }
               unseen == { r.apps[i].id : i \in DOMAIN r.apps } \ held
           IN /\ Len(sso_applications) = Len(was) + Cardinality(unseen)
              /\ SubSeq(sso_applications, 1, Len(was)) = was
              /\ \A id \in unseen :
                   LET rec == r.apps[FirstWith(r.apps, id)]
                       rows == RowsFor(sso_applications, CompanyOf(r), id)
                   IN /\ Cardinality(rows) = 1
                      /\ \A i \in rows :
                           /\ sso_applications[i].name = rec.displayName[1]
                           /\ sso_applications[i].app_type =
                                 (IF rec.signInAudience = None THEN "web" ELSE rec.signInAudience[1])
                           /\ sso_applications[i].is_active =
                                 (IF rec.enabled = None THEN TRUE ELSE rec.enabled[1])

\* the scenario of two unknown applications: both are entities after the sync
C3_Witness ==
    \E p \in Procs :
        /\ SyncDone(p) /\ run[p].response.success
        /\ Len(run[p].apps) = 2
        /\ run[p].apps[1].id # run[p].apps[2].id
        /\ run[p].before.sso_applications = << >>
        /\ Len(sso_applications) = 2
        /\ integrations[ConfigId(users[run[p].user])].sync_status = "active"

\* C4: a sync whose list of well-formed records names an identifier that only
\* another company holds succeeds and creates the caller's own entity for it.
C4_UniquePerCompany ==
    \A p \in Procs :
        (/\ SyncDone(p)
         /\ WellFormed(run[p].apps)
         /\ \E i \in DOMAIN run[p].apps, k \in DOMAIN run[p].before.sso_applications :
               /\ run[p].before.sso_applications[k].entra_app_id = run[p].apps[i].id
               /\ run[p].before.sso_applications[k].company_id # CompanyOf(run[p]))
        => /\ run[p].response.success
           /\ \A i \in DOMAIN run[p].apps :
                 RowsFor(sso_applications, CompanyOf(run[p]), run[p].apps[i].id) # {}

\* C5: a call made while the cached expiry is ahead sends no token request,
\* a call made with no token cached or after the cached expiry has passed
\* sends exactly one; so the first two calls of a client, the second within
\* the window, send one token request between them.
C5_TokenReuse ==
    /\ \A i \in DOMAIN calls :
          calls[i].token_requests = (IF calls[i].in_window THEN 0 ELSE 1)
    /\ (Len(calls) >= 2 /\ calls[2].in_window)
          => calls[1].token_requests + calls[2].token_requests = 1

\* two calls within the window, then a third after the expiry
C5_Witness ==
    /\ Len(calls) = 3
    /\ ~calls[1].in_window /\ calls[2].in_window /\ ~calls[3].in_window
    /\ calls[1].token_requests + calls[2].token_requests = 1
    /\ calls[3].token_requests = 1
    /\ calls[3].api_requests = 1

\* C6: a sync run whose token request was answered non-2xx returns a failure,
\* not a success with zero applications.
C6_TokenFailureFailsSync ==
    \A p \in Procs :
        (SyncDone(p) /\ ~run[p].token_ok) => ~run[p].response.success

\* C7: a test-connection whose token request was answered non-2xx returns a
\* failure carrying an error message.
C7_TokenFailureFailsTest ==
    \A p \in Procs :
        (/\ pc[p] = "done"
         /\ run[p].kind = "test"
         /\ Gate(users[run[p].user]) = None
         /\ ~run[p].token_ok)
        => /\ ~run[p].response.success
           /\ run[p].response.error # None

\* C8: a sync run in which the fetch (its token request), the loop or the
\* commit raised returns the structured failure (status 500, the exception's
\* message, no success flag), and the committed sync state of every integration
\* is what it was when the run began.
C8_ExceptionLeavesSyncState ==
    \A p \in Procs :
        (SyncDone(p) /\ (~run[p].token_ok \/ run[p].exc # None))
        => /\ run[p].response.code = 500
           /\ ~run[p].response.success
           /\ run[p].response.error # None
           /\ integrations = run[p].before.integrations

\* C9: a failed sync run leaves the integration's status "error".
C9_FailureSetsError ==
    \A p \in Procs :
        (SyncDone(p) /\ ~run[p].response.success)
        => integrations[ConfigId(users[run[p].user])].sync_status = "error"

\* C10: a sync run that fails after staging entities persists none of them:
\* the inventory and last_sync are what they were when the run began.
C10_FailedSyncKeepsInventory ==
    \A p \in Procs :
        (SyncDone(p) /\ ~run[p].response.success)
        => /\ sso_applications = run[p].before.sso_applications
           /\ integrations[ConfigId(users[run[p].user])].last_sync
                 = run[p].before.integrations[ConfigId(users[run[p].user])].last_sync

\* a run stages its first record and fails on the second, malformed one, on an
\* integration that has synced before
C10_Witness ==
    \E p \in Procs :
        /\ SyncDone(p)
        /\ ~run[p].response.success
        /\ Len(run[p].staged) = 1
        /\ run[p].idx = 2
        /\ run[p].exc \in {Some("'id'"), Some("'displayName'")}
        /\ run[p].before.integrations[ConfigId(users[run[p].user])].last_sync # None

\* a finished request to sync_entra
SyncAnswered(p) == pc[p] = "done" /\ run[p].kind = "sync"

\* C11: a caller of sync_entra who belongs to a company and is neither its
\* admin nor a super admin is answered 403 "Insufficient permissions"; no token
\* request and no Graph request is sent, and the inventory and the sync state
\* stay as the request found them.
C11_AuthorizationGate ==
    \A p \in Procs :
        (/\ SyncAnswered(p)
         /\ users[run[p].user].company_id # 0
         /\ users[run[p].user].role # "super_admin"
         /\ ~users[run[p].user].is_admin)
        => /\ run[p].response = Response(403, FALSE, Some("Insufficient permissions"), None)
           /\ run[p].requests = 0
           /\ Database = run[p].before

\* a plain member of company 1 is refused once the company has an inventory
C11_Witness ==
    \E p \in Procs :
        /\ SyncAnswered(p)
        /\ run[p].user = "carol"
        /\ run[p].response.code = 403
        /\ \E i \in DOMAIN sso_applications : sso_applications[i].company_id = 1
        /\ integrations[1].sync_status = "active"

\* C12: a caller allowed to manage a company that has no entra_id
\* configuration, or whose configuration has no integration row, gets a failure
\* with an error message ("Entra ID not configured" when the configuration is
\* missing); no outbound request is sent and nothing stored changes.
C12_ConfigurationGate ==
    \A p \in Procs :
        LET user == users[run[p].user]
            configs == { c \in sso_configurations :
                           c.company_id = user.company_id /\ c.provider_name = "entra_id" }
        IN (/\ SyncAnswered(p)
            /\ user.company_id # 0
            /\ user.role = "super_admin" \/ user.is_admin
            /\ \A c \in configs : c.id \notin DOMAIN integrations)
           => /\ ~run[p].response.success
              /\ run[p].response.code = 400
              /\ run[p].response.error =
                    (IF configs = {} THEN Some("Entra ID not configured")
                     ELSE Some("Entra integration not found"))
              /\ run[p].requests = 0
              /\ Database = run[p].before

\* company 3 has a configuration for another provider only: its super admin is
\* told that Entra ID is not configured, while other companies hold inventories
C12_Witness ==
    \E p \in Procs :
        /\ SyncAnswered(p)
        /\ run[p].user = "dan"
        /\ run[p].response.error = Some("Entra ID not configured")
        /\ sso_applications # << >>

\* C13: a sync run that completes without exception leaves the integration
\* "active" with last_sync the instant of the run, whatever the status was and
\* whether or not a row was inserted.
C13_SuccessSetsActive ==
    \A p \in Procs :
        (SyncDone(p) /\ run[p].response.success)
        => integrations[ConfigId(users[run[p].user])] =
              Synced(run[p].before.integrations[ConfigId(users[run[p].user])], now)

\* a successful run on an empty remote list, of an integration synced earlier
C13_Witness ==
    \E p \in Procs :
        /\ SyncDone(p) /\ run[p].response.success
        /\ run[p].token_ok /\ run[p].api_ok
        /\ run[p].apps = << >>
        /\ run[p].before.integrations[ConfigId(users[run[p].user])].sync_status = "active"
        /\ run[p].before.integrations[ConfigId(users[run[p].user])].last_sync # Some(now)

\* C14: when the token is issued and the applications endpoint answers an
\* error status, get_applications returns the empty list without raising, and
\* the sync run reports success with zero applications and inserts nothing.
C14_BestEffortRead ==
    \A p \in Procs :
        (SyncDone(p) /\ run[p].token_ok /\ ~run[p].api_ok)
        => /\ run[p].apps = << >>
           /\ run[p].exc = None
           /\ run[p].response = Success(<< >>)
           /\ sso_applications = run[p].before.sso_applications

\* the applications endpoint answers 403 to a company that has an inventory
C14_Witness ==
    \E p \in Procs :
        /\ SyncDone(p) /\ run[p].token_ok /\ ~run[p].api_ok
        /\ run[p].requests = 2
        /\ run[p].response.code = 200
        /\ \E i \in DOMAIN sso_applications :
              sso_applications[i].company_id = CompanyOf(run[p])

\* C15: a list-returning query of the client raises nothing, and returns the
\* empty list whenever its token request or its data request failed, by an
\* error status or by getting no answer.
C15_ListQueriesNeverRaise ==
    result.op \in ListQueries
    => /\ result.exc = None
       /\ (result.token_failed \/ result.data_failed) => result.returned = << >>

\* the members of a role asked with a cached token, the directory not answering
C15_Witness ==
    /\ result.op = "get_directory_role_members"
    /\ result.data_failed /\ ~result.token_failed
    /\ client.access_token # None
    /\ result.returned = << >>

\* C16: test_connection raises nothing and returns a dict whose success flag
\* is true exactly when neither the token request nor the /organization
\* request failed, with a tenant name on success and an error message on
\* failure.
C16_TestConnectionNeverRaises ==
    result.op = "test_connection"
    => /\ result.exc = None
       /\ result.returned.success = (~result.token_failed /\ ~result.data_failed)
       /\ result.returned.success
             => (result.returned.tenant_name # None /\ result.returned.error = None)
       /\ ~result.returned.success
             => (result.returned.error # None /\ result.returned.tenant_name = None)

\* the token is issued and /organization answers 403
C16_Witness ==
    /\ result.op = "test_connection"
    /\ ~result.token_failed /\ result.data_failed
    /\ result.returned.error = Some("HTTPError")
    /\ ~result.returned.success

\* C17: a sync request refused by the uniqueness constraint, as the loser of
\* two requests that both staged an identifier neither found, is answered with
\* the structured failure carrying the exception's message, and the table
\* holds no row twice for a company and identifier.
C17_ConflictSurfaced ==
    \A p \in Procs :
        (SyncDone(p) /\ run[p].exc = Some("IntegrityError"))
        => /\ run[p].response.code = 500
           /\ ~run[p].response.success
           /\ run[p].response.error = Some("IntegrityError")
           /\ \A i, j \in DOMAIN sso_applications :
                 (i # j /\ sso_applications[i].company_id = sso_applications[j].company_id)
                 => sso_applications[i].entra_app_id # sso_applications[j].entra_app_id

\* two overlapping requests of company 1's admin for one application: the
\* winner's row is the only row, the loser is answered 500
C17_Witness ==
    \E p, q \in Procs :
        /\ p # q
        /\ SyncDone(p) /\ SyncDone(q)
        /\ run[p].user = "alice" /\ run[q].user = "alice"
        /\ run[p].response.success
        /\ run[q].response.error = Some("IntegrityError")
        /\ Len(sso_applications) = 1
        /\ sso_applications[1].company_id = 1

\* C18: a sync run made again after it lost a uniqueness conflict to a
\* concurrent run of its own company, overlapping no other sync, succeeds and
\* leaves the integration "active".
C18_ConflictRetryable ==
    \A p \in Procs :
        (SyncDone(p) /\ run[p].repeat)
        => /\ run[p].response.success
           /\ integrations[ConfigId(users[run[p].user])].sync_status = "active"

\* the rows that company_id held in `table` for an identifier of the list
HeldOf(table, company_id, apps) ==
    { k \in DOMAIN table :
        /\ table[k].company_id = company_id
        /\ \E i \in DOMAIN apps : apps[i].id = table[k].entra_app_id }

\* C19: a sync run leaves every entity its company already held for an
\* identifier of the remote list as it was (name, type, active flag), also
\* when the remote record now carries other values.
C19_InsertOnly ==
    \A p \in Procs :
        SyncDone(p)
        => \A k \in HeldOf(run[p].before.sso_applications, CompanyOf(run[p]), run[p].apps) :
              /\ k \in DOMAIN sso_applications
              /\ sso_applications[k] = run[p].before.sso_applications[k]

\* a successful run whose list renames an application the company holds
C19_Witness ==
    \E p \in Procs :
        /\ SyncDone(p) /\ run[p].response.success
        /\ \E k \in HeldOf(run[p].before.sso_applications, CompanyOf(run[p]), run[p].apps) :
              \E i \in DOMAIN run[p].apps :
                 /\ run[p].apps[i].id = sso_applications[k].entra_app_id
                 /\ run[p].apps[i].displayName # None
                 /\ run[p].apps[i].displayName # Some(sso_applications[k].name)
                 /\ run[p].apps[i].enabled # Some(sso_applications[k].is_active)

\* C20: after a successful sync, an entity the company already held for an
\* identifier that one record of the remote list carries has that record's
\* name, type and active flag.
C20_UpdatedOnLaterSync ==
    \A p \in Procs :
        (SyncDone(p) /\ run[p].response.success)
        => \A k \in HeldOf(run[p].before.sso_applications, CompanyOf(run[p]), run[p].apps) :
              \A i \in DOMAIN run[p].apps :
                 (/\ run[p].apps[i].id = sso_applications[k].entra_app_id
                  /\ run[p].apps[i].displayName # None
                  /\ \A j \in DOMAIN run[p].apps :
                        run[p].apps[j].id = run[p].apps[i].id => j = i)
                 => /\ sso_applications[k].name = run[p].apps[i].displayName[1]
                    /\ sso_applications[k].app_type = Get(run[p].apps[i].signInAudience, "web")
                    /\ sso_applications[k].is_active = Get(run[p].apps[i].enabled, TRUE)

\* C21: no step of any request removes a row of the inventory or changes one:
\* every row stored before the step is stored after it, at its place and with
\* its fields (its active flag among them), also when the step ends a sync
\* whose list is empty or no longer carries the row's identifier.
C21_NoAutomaticDeletion ==
    [][\A k \in DOMAIN sso_applications :
          /\ k \in DOMAIN sso_applications'
          /\ sso_applications'[k] = sso_applications[k]]_vars

\* a successful run on a list that names another application only: the
\* active row the company held for the missing identifier is still stored
C21_Witness ==
    \E p \in Procs :
        /\ SyncDone(p) /\ run[p].response.success
        /\ run[p].apps # << >>
        /\ \E k \in DOMAIN run[p].before.sso_applications :
              /\ run[p].before.sso_applications[k].company_id = CompanyOf(run[p])
              /\ run[p].before.sso_applications[k].is_active
              /\ \A i \in DOMAIN run[p].apps :
                    run[p].apps[i].id # run[p].before.sso_applications[k].entra_app_id
              /\ k \in DOMAIN sso_applications
              /\ sso_applications[k] = run[p].before.sso_applications[k]

\* a finished request to test_entra_connection
TestAnswered(p) == pc[p] = "done" /\ run[p].kind = "test"

\* C23: a caller of test_entra_connection who belongs to a company and is
\* neither its admin nor a super admin is answered 403 "Insufficient
\* permissions", and the request sends neither a token request nor a Graph
\* request.
C23_TestAuthorizationGate ==
    \A p \in Procs :
        (/\ TestAnswered(p)
         /\ users[run[p].user].company_id # 0
         /\ users[run[p].user].role # "super_admin"
         /\ ~users[run[p].user].is_admin)
        => /\ run[p].response.code = 403
           /\ run[p].response.error = Some("Insufficient permissions")
           /\ ~run[p].response.success
           /\ run[p].requests = 0
           /\ ~run[p].token_ok /\ ~run[p].api_ok

\* a plain member of company 1 asks for a test of the connection
C23_Witness ==
    \E p \in Procs :
        /\ TestAnswered(p)
        /\ run[p].user = "carol"
        /\ run[p].response.code = 403
        /\ run[p].requests = 0

\* C25: every row a successful sync inserts has type "web" when the record it
\* was built from omits signInAudience and the record's value otherwise, and
\* is active when the record omits enabled and has the record's flag otherwise.
C25_DefaultsOnCreation ==
    \A p \in Procs :
        (SyncDone(p) /\ run[p].response.success)
        => \A k \in (Len(run[p].before.sso_applications) + 1)..Len(sso_applications) :
              LET row == sso_applications[k]
                  rec == run[p].apps[FirstWith(run[p].apps, row.entra_app_id)]
              IN /\ rec.signInAudience = None => row.app_type = "web"
                 /\ rec.signInAudience # None => Some(row.app_type) = rec.signInAudience
                 /\ rec.enabled = None => row.is_active
                 /\ rec.enabled # None => Some(row.is_active) = rec.enabled

\* one run inserts an application whose record omits both keys and one whose
\* record carries both, disabled
C25_Witness ==
    \E p \in Procs :
        /\ SyncDone(p) /\ run[p].response.success
        /\ Len(sso_applications) = Len(run[p].before.sso_applications) + 2
        /\ \E i, j \in DOMAIN run[p].apps :
              /\ run[p].apps[i].signInAudience = None /\ run[p].apps[i].enabled = None
              /\ run[p].apps[j].signInAudience # None /\ run[p].apps[j].enabled = Some(FALSE)
        /\ \E k, l \in DOMAIN sso_applications :
              /\ k > Len(run[p].before.sso_applications)
              /\ l > Len(run[p].before.sso_applications)
              /\ sso_applications[k].app_type = "web" /\ sso_applications[k].is_active
              /\ sso_applications[l].app_type # "web" /\ ~sso_applications[l].is_active

\* C27: a request to sync_entra, whoever sends it, is confined to the company
\* the caller belonged to when the request arrived, also when the caller has
\* moved to a company of their own while the run was under way: the rows it
\* adds belong to that company, the rows other companies held are as they
\* were, the integration of that company's configuration is "active" with a
\* last_sync after a success and as it was after a failure, and every other
\* integration has the sync state it had (one created meanwhile is still
\* "pending" without a last_sync); a refused request changes no row and no
\* integration at all.
C27_ConfinedToOwnCompany ==
    \A p \in Procs :
        SyncAnswered(p)
        => LET was == run[p].before
               caller == was.users[run[p].user]
               own == caller.company_id
               untouched(i) ==
                   IF i \in DOMAIN was.integrations
                   THEN integrations[i] = was.integrations[i]
                   ELSE integrations[i].sync_status = "pending"
                        /\ integrations[i].last_sync = None
           IN IF run[p].idx = 0
              THEN /\ sso_applications = was.sso_applications
                   /\ \A i \in DOMAIN integrations : untouched(i)
              ELSE /\ \A k \in DOMAIN sso_applications :
                         k > Len(was.sso_applications)
                         => sso_applications[k].company_id = own
                   /\ \A k \in DOMAIN was.sso_applications :
                         was.sso_applications[k].company_id # own
                         => /\ k \in DOMAIN sso_applications
                            /\ sso_applications[k] = was.sso_applications[k]
                   /\ \A i \in DOMAIN integrations :
                         i # ConfigId(caller) => untouched(i)
                   /\ IF run[p].response.success
                      THEN /\ integrations[ConfigId(caller)].sync_status = "active"
                           /\ integrations[ConfigId(caller)].last_sync # None
                      ELSE untouched(ConfigId(caller))

\* alice, admin of company 1, sent the sync and set a company of her own up
\* while it ran: the run answered success, its row went to company 1 and the
\* integration of company 1 is active, the integration of her new company is
\* pending; the inventory and the integration of company 2, synced before by
\* its super admin, are as the run found them
C27_Witness ==
    \E p \in Procs :
        /\ SyncAnswered(p) /\ run[p].response.success
        /\ run[p].user = "alice"
        /\ run[p].before.users["alice"].company_id = 1
        /\ users["alice"].company_id = 5
        /\ Len(sso_applications) > Len(run[p].before.sso_applications)
        /\ sso_applications[Len(sso_applications)].company_id = 1
        /\ integrations[1].sync_status = "active"
        /\ 5 \in DOMAIN integrations /\ integrations[5].sync_status = "pending"
        /\ users["bob"].role = "super_admin"
        /\ \E k \in DOMAIN run[p].before.sso_applications :
              run[p].before.sso_applications[k].company_id = 2
        /\ integrations[2].sync_status = "active"
        /\ integrations[2] = run[p].before.integrations[2]

\* C28: from the integrations company_setup created ("pending", no
\* last_sync), in every reachable state an integration that is "active" has its
\* last_sync set; and an integration is "pending" after a step only if it was
\* "pending" before the step and the step did not complete a successful sync
\* of it: from the initial "pending", a "pending" integration has never had
\* a sync complete successfully.
C28_StatusInvariant ==
    /\ [](\A c \in DOMAIN integrations :
             integrations[c].sync_status = "active" => integrations[c].last_sync # None)
    /\ [][\A c \in DOMAIN integrations :
             integrations'[c].sync_status = "pending"
             => /\ integrations[c].sync_status = "pending"
                /\ ~\E p \in Procs :
                      /\ pc[p] = "commit" /\ pc'[p] = "done"
                      /\ run'[p].response.success
                      /\ ConfigId(users[run[p].user]) = c]_vars

\* erin has set a company up and synced the integration company_setup
\* created: it is active with its last_sync set, while the integrations no
\* sync was run for are pending as company_setup left them
C28_Witness ==
    \E p \in Procs :
        /\ SyncDone(p) /\ run[p].response.success
        /\ run[p].user = "erin"
        /\ run[p].before.integrations[ConfigId(users["erin"])].sync_status = "pending"
        /\ integrations[ConfigId(users["erin"])].sync_status = "active"
        /\ integrations[ConfigId(users["erin"])].last_sync = Some(now)
        /\ ConfigId(users["erin"]) \notin IntegrationIds
        /\ \A c \in IntegrationIds : integrations[c] = Pending(TenantIds[c])

\* C29: the count a successful sync reports is the length of the list the run
\* fetched, whether or not the run inserted a row for each record.
C29_CountsFetchedRecords ==
    \A p \in Procs :
        (SyncDone(p) /\ run[p].response.success)
        => run[p].response.count = Some(Len(run[p].apps))

\* a successful run on two records of applications the company already held:
\* nothing is inserted, the count is 2
C29_Witness ==
    \E p \in Procs :
        /\ SyncDone(p) /\ run[p].response.success
        /\ Len(run[p].apps) = 2
        /\ run[p].staged = << >>
        /\ sso_applications = run[p].before.sso_applications
        /\ run[p].response.count = Some(2)

\* C22: a step changes the sync state of an integration only if it is the
\* commit of a sync run that succeeds: no test of the connection, page or
\* query of the client, answered or failed, changes status or last_sync.
C22_SyncStateOnlyBySync ==
    [][integrations' # integrations
       => \E p \in Procs :
             /\ pc[p] = "commit" /\ run[p].kind = "sync"
             /\ pc'[p] = "done" /\ run'[p].response.success]_vars

\* after a sync of company 1, a test of its connection was refused the token,
\* the setup page has shown the company synced and a query of the client was
\* refused: the integration still has the state the sync gave it
C22_Witness ==
    /\ TestAnswered("p1")
    /\ run["p1"].user = "alice"
    /\ ~run["p1"].token_ok
    /\ pc["p2"] = "done"
    /\ run["p2"].kind = "entra_setup"
    /\ run["p2"].response.view = Some([company_setup |-> TRUE, entra_config |-> TRUE, permissions |-> FALSE,
                                        sync_data |-> TRUE])
    /\ result.op = "get_users" /\ result.data_failed
    /\ integrations[1].sync_status = "active"
    /\ integrations[1].last_sync # None /\ integrations[1].last_sync # Some(now)
    /\ integrations[2] = Pending(TenantIds[2])

\* the call before call i that last stored a token with its expiry (0: none)
LastGrant(i) ==
    LET G == { j \in 1..(i - 1) : calls[j].granted # None }
    IN IF G = {} THEN 0 ELSE CHOOSE j \in G : \A k \in G : k <= j

\* C24: a call that sends no token request is made strictly before the
\* instant the cached token was obtained + its expires_in - 300 s; hence the
\* cached token of such a call was issued with expires_in above 300: a token
\* issued with expires_in <= 300 is never reused.
C24_ExpirySafetyMargin ==
    \A i \in DOMAIN calls :
        calls[i].token_requests = 0
        => /\ LastGrant(i) # 0
           /\ calls[i].at < calls[LastGrant(i)].at
                              + calls[LastGrant(i)].granted[1].expires_in - 300
           /\ calls[LastGrant(i)].granted[1].expires_in > 300

\* a token issued for 300 s is not reused by a call made at the same instant;
\* that call is issued one for 600 s, which the third call, 200 s later, reuses
C24_Witness ==
    /\ Len(calls) = 3
    /\ calls[1].granted # None /\ calls[1].granted[1].expires_in = 300
    /\ calls[2].at = calls[1].at
    /\ calls[2].token_requests = 1
    /\ calls[2].granted # None /\ calls[2].granted[1].expires_in = 600
    /\ calls[3].at = calls[2].at + 200
    /\ calls[3].token_requests = 0
    /\ calls[3].sent # None

\* C26: a call whose token request fails, or is answered a body that stores
\* the token without an expiry, sends no Graph request with whatever the cache
\* holds; and a call that sends no token request carries the token of the last
\* token request that succeeded, its recorded expiry still ahead.
C26_FailureKeepsCacheConsistent ==
    \A i \in DOMAIN calls :
        /\ (calls[i].token_requests = 1 /\ calls[i].granted = None)
           => calls[i].sent = None
        /\ calls[i].token_requests = 0
           => /\ calls[i].in_window
              /\ LastGrant(i) # 0
              /\ calls[i].sent = Some(calls[LastGrant(i)].granted[1].access_token)
        /\ (calls[i].token_requests = 1 /\ calls[i].granted # None /\ calls[i].sent # None)
           => calls[i].sent = Some(calls[i].granted[1].access_token)

\* after a token has expired, a call is answered a body without expires_in and
\* the next one a refusal: the cache holds the token stored alone, neither
\* call has sent a Graph request, and both have asked for a token
C26_Witness ==
    /\ Len(calls) = 3
    /\ calls[1].granted # None /\ calls[1].sent = Some("tokA")
    /\ ~calls[2].in_window
    /\ calls[2].token_requests = 1 /\ calls[2].granted = None
    /\ client.access_token = Some("tokB")
    /\ client.token_expires # None /\ client.token_expires[1] <= now
    /\ calls[3].token_requests = 1 /\ calls[3].granted = None
    /\ calls[2].sent = None /\ calls[3].sent = None
    /\ calls[3].api_requests = 0

\* C30: the user a commit of add_user creates, for a caller who is not a
\* super admin, can manage no company but the caller's: can_manage_company(c)
\* is false of the new user for every other company c.
C30_NoPrivilegeEscalation ==
    [][\A p \in Procs :
          (/\ pc[p] = "add" /\ pc'[p] = "done"
           /\ ~IsSuperAdmin(run[p].current_user[1]))
          => \A n \in DOMAIN users' \ DOMAIN users :
                \A c \in DOMAIN companies \ {run[p].current_user[1].company_id} :
                   ~CanManageCompany(users'[n], c)]_vars

====
